---- MODULE Spec2Model ----
(***************************************************************************)
(* ZodiAI: the astrology tool pipeline (place -> coordinates -> timezone   *)
(* offset -> chart computation) and the safe wrapper of the chat route.    *)
(*                                                                         *)
(* The repository holds four drafts of the tool, all modelled here:        *)
(*   "GP"  src/app/api/chat/tools/astrology.ts:1-298   geocodePlace draft  *)
(*         (geo_details, then OpenStreetMap; guarded compute call)         *)
(*   "GD"  src/app/api/chat/tools/astrology.ts:300-508 geo_details draft   *)
(*         (geo_details, timezone_with_dst, unguarded compute call)        *)
(*   "ST"  src/unnamed/part_003  static table draft                        *)
(*         (fallback table, then OpenStreetMap; guarded compute call)      *)
(*   "GU"  src/unnamed/part_004  guarded draft                             *)
(*         (geo_details, timezone, compute, one try/catch around all)      *)
(* and "ANY", the wrapped tool as route.ts sees it (typed any): a tool     *)
(* that may return a value, return undefined or throw.                     *)
(* The POST handler of route.ts and the chat page in the browser (the      *)
(* previous-chats history of page.tsx, the conversation list of part_000)  *)
(* are modelled as well; the page has its own specifications.              *)
(*                                                                         *)
(* Numbers: a JavaScript number x is represented by the integer x * 10000  *)
(* (19.076 is 190760, 5.5 is 55000); NaN and undefined are tagged values.  *)
(* Strings that the code inspects character by character (the place) are   *)
(* sequences of one-character strings.                                     *)
(***************************************************************************)
EXTENDS Integers, Sequences, FiniteSets, TLC

VARIABLES
    variant,     \* which draft of the tool is deployed
    credsSet,    \* both ASTROLOGY_* environment values are set
    procs,       \* the tool invocations of this run
    post,        \* post[p]: the chat request (POST) in which invocation p is made
    upstream,    \* the responses the providers may give in this run
    input,       \* input[p]: the BirthQuery of invocation p
    pc,          \* pc[p]: the await at which invocation p is suspended
    loc,         \* loc[p]: the resolved location (local variables of execute)
    log,         \* log[p]: the outbound requests issued so far, in order
    resps,       \* resps[p]: the responses received so far, in order
    calls,       \* calls[p]: the outcome of every callAstrologyApi call, in order
    geocoded,    \* geocoded[p]: how the geocoding stage (geocodePlace, lookupGeo) settled
    raw,         \* raw[p]: how the raw tool's execute settled
    result,      \* result[p]: what the safe wrapper returned to the model
    now,         \* the chat page: what Date.now() returns
    messages,    \* the chat page: the messages of the current chat (their number)
    history,     \* page.tsx: the previous chats, newest first
    conversations,  \* part_000: the conversation list, newest first
    activeId,    \* part_000: the id of the active conversation
    clicked      \* the chat page: the handler that ran last

\* the state of the chat page in the browser
pageVars == <<now, messages, history, conversations, activeId, clicked>>

vars ==
    <<variant, credsSet, procs, upstream, post, input, pc, loc, log, resps, calls, geocoded,
      raw, result, now, messages, history, conversations, activeId, clicked>>

(***************************************************************************)
(* JavaScript values that reach a numeric conversion.                      *)
(***************************************************************************)
Num(n) == [tag |-> "number", v |-> n]
NumStr(n) == [tag |-> "numstr", v |-> n]    \* a string holding the numeral of n
PrefixStr(n) == [tag |-> "prefixstr", v |-> n] \* the numeral of n, then other text
EmptyStr == [tag |-> "emptystr", v |-> 0]   \* the empty string
BadStr == [tag |-> "badstr", v |-> 0]       \* a string that is no numeral
Undef == [tag |-> "undefined", v |-> 0]
NaN == [tag |-> "NaN", v |-> 0]

\* typeof x === "string"
IsStringType(x) == x.tag \in {"numstr", "prefixstr", "emptystr", "badstr"}

\* parseFloat(x): the argument is first converted to a string, and the
\* longest numeral it starts with is read
ParseFloat(x) ==
    IF x.tag \in {"number", "numstr", "prefixstr"} THEN Num(x.v) ELSE NaN

\* Number(x): the whole string must be a numeral; the empty string is 0
NumberOf(x) ==
    CASE x.tag \in {"number", "numstr"} -> Num(x.v)
      [] x.tag = "emptystr" -> Num(0)
      [] OTHER -> NaN

\* typeof x === "string" ? parseFloat(x) : Number(x)
ToNum(x) ==
    IF IsStringType(x) THEN ParseFloat(x) ELSE NumberOf(x)

\* a ?? b
Nullish(a, b) == IF a = Undef THEN b ELSE a

\* Number.isNaN(x)
IsNaN(x) == x.tag = "NaN"

\* typeof x === "number"
IsNumberType(x) == x.tag \in {"number", "NaN"}

(***************************************************************************)
(* Strings as character sequences: trim() and toLowerCase().               *)
(***************************************************************************)
UpperCase == <<"A", "B", "C", "D", "E", "F", "G", "H", "I", "J", "K", "L", "M",
               "N", "O", "P", "Q", "R", "S", "T", "U", "V", "W", "X", "Y", "Z">>
LowerCase == <<"a", "b", "c", "d", "e", "f", "g", "h", "i", "j", "k", "l", "m",
               "n", "o", "p", "q", "r", "s", "t", "u", "v", "w", "x", "y", "z">>

ToLowerChar(c) ==
    IF \E i \in 1..26 : UpperCase[i] = c
    THEN LowerCase[CHOOSE i \in 1..26 : UpperCase[i] = c]
    ELSE c

ToLowerCase(s) == [i \in 1..Len(s) |-> ToLowerChar(s[i])]

IsSpace(c) == c \in {" ", "\t", "\n"}

RECURSIVE TrimStart(_)
TrimStart(s) ==
    IF s # <<>> /\ IsSpace(Head(s)) THEN TrimStart(Tail(s)) ELSE s

RECURSIVE TrimEnd(_)
TrimEnd(s) ==
    IF s # <<>> /\ IsSpace(s[Len(s)]) THEN TrimEnd(SubSeq(s, 1, Len(s) - 1)) ELSE s

Trim(s) == TrimEnd(TrimStart(s))

(***************************************************************************)
(* The hard-coded fallback table of the static table draft.                *)
(***************************************************************************)
KeyMumbai == <<"m", "u", "m", "b", "a", "i">>
KeyMumbaiIndia == <<"m", "u", "m", "b", "a", "i", ",", " ", "i", "n", "d", "i", "a">>
KeyJunagadh == <<"j", "u", "n", "a", "g", "a", "d", "h">>
KeyJunagadhIndia == <<"j", "u", "n", "a", "g", "a", "d", "h", ",", " ", "i", "n", "d", "i", "a">>
KeyDelhi == <<"d", "e", "l", "h", "i">>
KeyNewDelhi == <<"n", "e", "w", " ", "d", "e", "l", "h", "i">>
KeyBangalore == <<"b", "a", "n", "g", "a", "l", "o", "r", "e">>
KeyBengaluru == <<"b", "e", "n", "g", "a", "l", "u", "r", "u">>
KeyAhmedabad == <<"a", "h", "m", "e", "d", "a", "b", "a", "d">>

TableKeys ==
    {KeyMumbai, KeyMumbaiIndia, KeyJunagadh, KeyJunagadhIndia, KeyDelhi,
     KeyNewDelhi, KeyBangalore, KeyBengaluru, KeyAhmedabad}

Entry(la, lo) ==
    [lat |-> Num(la), lon |-> Num(lo), timezoneId |-> "Asia/Kolkata", tzone |-> Num(55000)]

fallbackTable ==
    [k \in TableKeys |->
        CASE k \in {KeyMumbai, KeyMumbaiIndia} -> Entry(190760, 728777)
          [] k \in {KeyJunagadh, KeyJunagadhIndia} -> Entry(215167, 704667)
          [] k \in {KeyDelhi, KeyNewDelhi} -> Entry(286139, 772090)
          [] k \in {KeyBangalore, KeyBengaluru} -> Entry(129716, 775946)
          [] OTHER -> Entry(230225, 725714)]

\* fallbackTable is an object literal: a key that names a property inherited
\* from Object.prototype reads as a truthy value none of whose fields exist.
KeyConstructor == <<"c", "o", "n", "s", "t", "r", "u", "c", "t", "o", "r">>
InheritedKeys == {KeyConstructor}

\* if (fallbackTable[key])
TableHit(key) == key \in TableKeys \/ key \in InheritedKeys

\* fb = fallbackTable[key]
TableGet(key) ==
    IF key \in TableKeys
    THEN fallbackTable[key]
    ELSE [lat |-> Undef, lon |-> Undef, timezoneId |-> "", tzone |-> Undef]

(***************************************************************************)
(* Provider responses.  A row is one element of a provider's result list;  *)
(* a field the provider left out is Undef (numbers), "" (identifiers) or   *)
(* <<>> (texts).                                                           *)
(***************************************************************************)
Row(latitude, longitude, lat, lon, tzone, timezone, tzid, cc, pname) ==
    [latitude |-> latitude, longitude |-> longitude, lat |-> lat, lon |-> lon,
     tzone |-> tzone, timezone |-> timezone, timezone_id |-> tzid,
     country_code |-> cc,       \* country_code, or address.country_code (Nominatim)
     place_name |-> pname]      \* place_name, or display_name (Nominatim)

TxtMumbai == <<"M", "u", "m", "b", "a", "i">>
TxtNewYork == <<"N", "e", "w", " ", "Y", "o", "r", "k">>
TxtPune == <<"P", "u", "n", "e">>

\* rows of the geo_details endpoint
GeoRowMumbai ==
    Row(Num(190760), Num(728777), Undef, Undef, Undef, Undef, "Asia/Kolkata", <<"I", "N">>, TxtMumbai)
GeoRowStrings ==
    Row(NumStr(215167), NumStr(704667), Undef, Undef, NumStr(55000), Undef, "Asia/Kolkata", <<"I", "N">>, <<>>)
GeoRowShortNames ==
    Row(Undef, Undef, Num(407128), Num(-740060), Undef, Num(-50000), "America/New_York", <<"U", "S">>, TxtNewYork)
GeoRowNotNumeric ==
    Row(BadStr, NumStr(728777), Undef, Undef, Undef, Undef, "", <<>>, <<>>)
GeoRowOutOfRange ==
    Row(Num(950000), Num(1900000), Undef, Undef, Num(150000), Undef, "", <<>>, <<>>)

GeoRowOddStrings ==
    Row(PrefixStr(190760), EmptyStr, Undef, Undef, Undef, Undef, "Asia/Kolkata", <<"I", "N">>, TxtMumbai)

\* numeric coordinates, an offset that is no number
GeoRowBadOffset ==
    Row(Num(190760), Num(728777), Undef, Undef, BadStr, Undef, "Asia/Kolkata", <<"I", "N">>, TxtMumbai)

GeoRows ==
    {GeoRowMumbai, GeoRowStrings, GeoRowShortNames, GeoRowNotNumeric, GeoRowOutOfRange,
     GeoRowOddStrings, GeoRowBadOffset}

\* rows of the Nominatim search endpoint (lat and lon are strings)
OsmRowIndia ==
    Row(Undef, Undef, NumStr(185204), NumStr(738567), Undef, Undef, "", <<"i", "n">>, TxtPune)
OsmRowIndiaUpper ==
    Row(Undef, Undef, NumStr(185204), NumStr(738567), Undef, Undef, "", <<"I", "N">>, TxtPune)
OsmRowAbroad ==
    Row(Undef, Undef, NumStr(407128), NumStr(-740060), Undef, Undef, "", <<"u", "s">>, TxtNewYork)
OsmRowNoAddress ==
    Row(Undef, Undef, NumStr(185204), NumStr(738567), Undef, Undef, "", <<>>, TxtPune)
OsmRowNotNumeric ==
    Row(Undef, Undef, BadStr, BadStr, Undef, Undef, "", <<"i", "n">>, <<>>)

OsmRowOddStrings ==
    Row(Undef, Undef, PrefixStr(185204), EmptyStr, Undef, Undef, "", <<"i", "n">>, TxtPune)

OsmRows ==
    {OsmRowIndia, OsmRowIndiaUpper, OsmRowAbroad, OsmRowNoAddress, OsmRowNotNumeric,
     OsmRowOddStrings}

\* A response body: text that is no JSON, a JSON array, or a JSON object
\* (hasGeonames: its geonames field is an array, rows; timezone: its
\* timezone field; id tells two payloads apart).
Body(kind, rows, hasGeonames, timezone, id) ==
    [kind |-> kind, rows |-> rows, hasGeonames |-> hasGeonames, timezone |-> timezone, id |-> id]

NoBody == Body("none", <<>>, FALSE, Undef, 0)
TextBody == Body("text", <<>>, FALSE, Undef, 0)
ArrayBody(rows) == Body("array", rows, FALSE, Undef, 0)
GeonamesBody(rows) == Body("object", rows, TRUE, Undef, 0)
TimezoneBody(tz) == Body("object", <<>>, FALSE, tz, 0)
PayloadBody(id) == Body("object", <<>>, FALSE, Undef, id)

\* fetch rejected (net = FALSE), or resolved with a status and a body
Rejected == [net |-> FALSE, status |-> 0, body |-> NoBody]
Http(status, body) == [net |-> TRUE, status |-> status, body |-> body]

\* res.ok
Ok(resp) == resp.net /\ resp.status >= 200 /\ resp.status <= 299

Failures == {Rejected, Http(500, TextBody)}

GeoResponses ==
    Failures
    \cup {Http(200, b) : b \in {TextBody, PayloadBody(1), ArrayBody(<<>>), GeonamesBody(<<>>)}}
    \cup {Http(200, ArrayBody(<<r>>)) : r \in GeoRows}
    \cup {Http(200, GeonamesBody(<<r>>)) : r \in GeoRows}
    \cup {Http(200, GeonamesBody(<<GeoRowShortNames, GeoRowMumbai>>))}

OsmResponses ==
    Failures
    \cup {Http(200, b) : b \in {TextBody, PayloadBody(1), ArrayBody(<<>>)}}
    \cup {Http(200, ArrayBody(<<r>>)) : r \in OsmRows}
    \cup {Http(200, ArrayBody(<<OsmRowAbroad, OsmRowIndia>>))}

TimezoneResponses ==
    Failures
    \cup {Http(200, TextBody), Http(200, ArrayBody(<<>>))}
    \cup {Http(200, TimezoneBody(tz)) :
            tz \in {Num(55000), Num(-50000), Num(150000), NumStr(55000), PrefixStr(-50000),
                    BadStr, Undef}}

ComputeResponses ==
    Failures \cup {Http(200, TextBody), Http(200, PayloadBody(1)), Http(200, PayloadBody(2))}

AllResponses == GeoResponses \cup OsmResponses \cup TimezoneResponses \cup ComputeResponses

\* the responses offered when two invocations run side by side: of every
\* provider a failure, an answer without a candidate and a usable answer
FewResponses ==
    {Http(500, TextBody),
     Http(200, ArrayBody(<<>>)),
     Http(200, GeonamesBody(<<>>)),
     Http(200, ArrayBody(<<GeoRowMumbai>>)),
     Http(200, GeonamesBody(<<GeoRowMumbai>>)),
     Http(200, ArrayBody(<<OsmRowIndia>>)),
     Http(200, TimezoneBody(Num(-50000))),
     Http(200, TimezoneBody(BadStr)),
     Http(200, PayloadBody(1)),
     Http(200, PayloadBody(2))}

(***************************************************************************)
(* Requests, thrown errors and tool results.                               *)
(***************************************************************************)
AstrologyHost == "json.astrologyapi.com"
NominatimHost == "nominatim.openstreetmap.org"

\* JSON.stringify of a number field of the request body: NaN is written as
\* null, a field that is undefined is left out
Null == [tag |-> "null", v |-> 0]
JsonNum(x) == IF x.tag = "NaN" THEN Null ELSE x

\* one outbound fetch: the host, the endpoint and the body or query sent
Request(host, endpoint, place, lat, lon, tzone, tzid) ==
    [host |-> host, endpoint |-> endpoint, place |-> place,
     lat |-> JsonNum(lat), lon |-> JsonNum(lon), tzone |-> JsonNum(tzone),
     timezoneId |-> tzid]

\* a thrown Error: what its message tells (kind), and the status, endpoint,
\* body text and place its message embeds
Err(kind, status, endpoint, body, place) ==
    [kind |-> kind, status |-> status, endpoint |-> endpoint, body |-> body, place |-> place]

NoErr == Err("none", 0, "", NoBody, <<>>)

\* the object a tool returns; a field it does not set holds the default
NoResult ==
    [type |-> "", step |-> "", ok |-> "absent", message |-> "", msgPlace |-> <<>>,
     technical |-> NoErr, name |-> "", place |-> <<>>, timezoneId |-> "",
     lat |-> Undef, lon |-> Undef, tzone |-> Undef, payload |-> NoBody]

NoLoc ==
    [lat |-> Undef, lon |-> Undef, tzone |-> Undef, timezoneId |-> "", place |-> <<>>]

\* how a callAstrologyApi call settled: the parsed body returned, or an Error thrown
ApiReturned(endpoint, body) ==
    [endpoint |-> endpoint, threw |-> FALSE, err |-> NoErr, value |-> body]
ApiThrew(endpoint, e) ==
    [endpoint |-> endpoint, threw |-> TRUE, err |-> e, value |-> NoBody]

\* how an execute function settled
Pending == [state |-> "pending", value |-> NoResult, err |-> NoErr]
Return(v) == [state |-> "returned", value |-> v, err |-> NoErr]
ReturnUndefined == [state |-> "undefined", value |-> NoResult, err |-> NoErr]
Throw(e) == [state |-> "threw", value |-> NoResult, err |-> e]

\* how the geocoding stage settled: geocodePlace and lookupGeo return a
\* location or throw an Error; the inline stage of draft GD has no function
\* boundary and ends without a location ("failed")
GeoPending == [state |-> "pending", loc |-> NoLoc, err |-> NoErr]
GeoReturned(l) == [state |-> "returned", loc |-> l, err |-> NoErr]
GeoThrew(e) == [state |-> "threw", loc |-> NoLoc, err |-> e]
GeoFailed(e) == [state |-> "failed", loc |-> NoLoc, err |-> e]

\* what one step of an execute function does: where it suspends next (pc),
\* its locals, the requests it sent, the callAstrologyApi calls that settled
\* in it, how the geocoding stage settled in it (GeoPending: not in this
\* step) and how execute settled (Pending while it is suspended)
Cont(npc, nloc, sent, called, settled) ==
    [pc |-> npc, loc |-> nloc, sent |-> sent, called |-> called, geo |-> GeoPending,
     raw |-> settled]

\* the step c, in which the geocoding stage settled as g
Geo(c, g) == [c EXCEPT !.geo = g]

\* an execute whose promise is never settled: no return and no throw
Finish_NeverSettles(nloc, called, settled) == Cont("lost", nloc, <<>>, called, Pending)

\* the step in which execute settles
Finish(nloc, called, settled) == Cont("settled", nloc, <<>>, called, settled)

(***************************************************************************)
(* Inputs: the BirthQuery the model passes to the tool.  The date and time *)
(* fields are copied into the compute request unread and are left out.     *)
(***************************************************************************)
Drafts == {"GP", "GD", "ST", "GU"}

\* the queryType enum of each draft: chart details first, lighter reading second
QueryTypes(d) ==
    CASE d = "GP" -> {"birth_chart", "general_prediction"}
      [] d = "GD" -> {"birth_details", "daily_nakshatra_prediction"}
      [] d = "ST" -> {"birth_chart", "basic_traits"}
      [] d = "GU" -> {"birth_chart", "daily_prediction"}
      [] OTHER -> {"birth_chart"}

Places ==
    TableKeys
    \cup {<<"M", "u", "m", "b", "a", "i">>,
          <<" ", "M", "u", "m", "b", "a", "i", " ">>,
          <<"M", "U", "M", "B", "A", "I", ",", " ", "I", "n", "d", "i", "a">>,
          <<"M", "u", "m", "b", "a", "i", ",", " ", "M", "a", "h", "a", "r", "a", "s", "h", "t", "r", "a", ",", " ", "I", "n", "d", "i", "a">>,
          <<"D", "e", "l", "h", "i", ",", " ", "I", "n", "d", "i", "a">>,
          <<"Z", "z", "z", "q", "x", "1", "2", "3">>,
          <<"P", "u", "n", "e">>,
          KeyConstructor,
          <<" ", " ">>,
          <<>>}

Queries(d) ==
    [name : {"Asha"}, place : Places, queryType : QueryTypes(d)]

\* the queries of two invocations that run side by side
FewPlaces == {TxtMumbai, TxtPune}

FewQueries(d) ==
    [name : {"Asha"}, place : FewPlaces, queryType : QueryTypes(d)]

(***************************************************************************)
(* Credentials.                                                            *)
(***************************************************************************)
\* getAstrologyAuthHeader / getAuthHeader / buildAuthHeader: throws when either
\* secret is unset; it is evaluated while the fetch arguments are built, so
\* when it throws no request is sent
AuthError == Err("config", 0, "", NoBody, <<>>)

\* the check of the two secrets left out
AuthThrows_Unchecked == FALSE

AuthThrows == ~credsSet

(***************************************************************************)
(* Draft GP: src/app/api/chat/tools/astrology.ts, lines 1-298.             *)
(***************************************************************************)
\* callAstrologyApi, once fetch has settled with resp
GP_callAstrologyApi(endpoint, resp) ==
    IF ~resp.net THEN ApiThrew(endpoint, Err("network", 0, "", NoBody, <<>>))
    ELSE IF ~Ok(resp)
    THEN ApiThrew(endpoint, Err("http", resp.status, endpoint, resp.body, <<>>))
    ELSE IF resp.body.kind = "text"
    THEN ApiThrew(endpoint, Err("parse", 0, "", NoBody, <<>>))
    ELSE ApiReturned(endpoint, resp.body)

\* the LocationInfo built from the first geo_details row
GP_FromGeoDetails(first) ==
    LET tzoneRaw == Nullish(Nullish(first.tzone, first.timezone), Num(55000))
        latRaw == Nullish(first.latitude, first.lat)
        lonRaw == Nullish(first.longitude, first.lon)
    IN  [lat |-> ToNum(latRaw), lon |-> ToNum(lonRaw), tzone |-> ToNum(tzoneRaw),
         timezoneId |-> IF first.timezone_id # "" THEN first.timezone_id ELSE "Asia/Kolkata",
         place |-> <<>>]

\* the first row taken as soon as its coordinates are numbers
GP_GeoUsable_CoordinatesOnly(out) ==
    /\ ~out.threw
    /\ out.value.kind = "array"
    /\ Len(out.value.rows) > 0
    /\ LET l == GP_FromGeoDetails(out.value.rows[1])
       IN  ~IsNaN(l.lat) /\ ~IsNaN(l.lon)

\* geo_details yielded a usable first row
GP_GeoUsable(out) ==
    /\ ~out.threw
    /\ out.value.kind = "array"
    /\ Len(out.value.rows) > 0
    /\ LET l == GP_FromGeoDetails(out.value.rows[1])
       IN  ~IsNaN(l.lat) /\ ~IsNaN(l.lon) /\ ~IsNaN(l.tzone)

\* lat >= 6 && lat <= 37 && lon >= 68 && lon <= 98
GP_InIndiaBox(lat, lon) ==
    /\ lat.tag = "number" /\ lon.tag = "number"
    /\ lat.v >= 60000 /\ lat.v <= 370000
    /\ lon.v >= 680000 /\ lon.v <= 980000

\* the LocationInfo built from the first Nominatim row
GP_FromNominatim(first) ==
    LET lat == ParseFloat(first.lat)
        lon == ParseFloat(first.lon)
        india == GP_InIndiaBox(lat, lon)
    IN  [lat |-> lat, lon |-> lon,
         tzone |-> IF india THEN Num(55000) ELSE Num(0),
         timezoneId |-> IF india THEN "Asia/Kolkata" ELSE "UTC",
         place |-> <<>>]

\* the Nominatim part of geocodePlace throws: fetch rejected, !osmResp.ok,
\* a body that is no JSON, no array or an empty array
GP_NominatimThrows(resp) ==
    \/ ~Ok(resp)
    \/ resp.body.kind # "array"
    \/ Len(resp.body.rows) = 0

GP_Endpoint(q) ==
    IF q.queryType = "birth_chart" THEN "astro_details" ELSE "birth_details"

GP_Error(message, place) ==
    [NoResult EXCEPT !.type = "error", !.message = message, !.msgPlace = place]

GP_Success(q, l, body) ==
    [NoResult EXCEPT
        !.type = IF q.queryType = "birth_chart" THEN "birth_chart" ELSE "prediction",
        !.name = q.name, !.place = q.place, !.timezoneId = l.timezoneId,
        !.tzone = l.tzone, !.lat = l.lat, !.lon = l.lon, !.payload = body]

GP_ComputeFailed(q) ==
    IF q.queryType = "birth_chart"
    THEN GP_Error("issue while fetching your detailed birth chart", <<>>)
    ELSE GP_Error("problem while fetching your horoscope data", <<>>)

\* execute, from the resolved location to the compute call
GP_Compute(q, l) ==
    IF AuthThrows
    THEN Finish(l, <<ApiThrew(GP_Endpoint(q), AuthError)>>, Return(GP_ComputeFailed(q)))
    ELSE Cont("compute", l,
              <<Request(AstrologyHost, GP_Endpoint(q), <<>>, l.lat, l.lon, l.tzone, "")>>,
              <<>>, Pending)

\* geocodePlace asks geo_details once more instead of falling back
GP_Nominatim_RetryGeoDetails(q, called) ==
    Cont("geo_details", NoLoc,
         <<Request(AstrologyHost, "geo_details", q.place, Undef, Undef, Undef, "")>>,
         called, Pending)

\* geocodePlace falls back to Nominatim
GP_Nominatim(q, called) ==
    Cont("nominatim", NoLoc,
         <<Request(NominatimHost, "search", q.place, Undef, Undef, Undef, "")>>,
         called, Pending)

\* execute up to its first await
GP_Start(q) ==
    IF AuthThrows
    THEN GP_Nominatim(q, <<ApiThrew("geo_details", AuthError)>>)
    ELSE Cont("geo_details", NoLoc,
              <<Request(AstrologyHost, "geo_details", q.place, Undef, Undef, Undef, "")>>,
              <<>>, Pending)

\* geocodePlace resumes with the geo_details response
GP_AfterGeoDetails(q, resp) ==
    LET out == GP_callAstrologyApi("geo_details", resp)
    IN  IF GP_GeoUsable(out)
        THEN LET l == GP_FromGeoDetails(out.value.rows[1])
                 c == GP_Compute(q, l)
             IN  Geo([c EXCEPT !.called = <<out>> \o @], GeoReturned(l))
        ELSE GP_Nominatim(q, <<out>>)

\* the Error the Nominatim part of geocodePlace throws
GP_NominatimError(q, resp) ==
    IF ~resp.net THEN Err("network", 0, "", NoBody, <<>>)
    ELSE IF ~Ok(resp) THEN Err("osm_status", resp.status, "", NoBody, q.place)
    ELSE IF resp.body.kind = "text" THEN Err("parse", 0, "", NoBody, <<>>)
    ELSE Err("no_location", 0, "", NoBody, q.place)

\* execute going on to the compute call, without a location, after
\* geocodePlace threw
GP_AfterNominatim_ComputesAnyway(q, resp) ==
    IF GP_NominatimThrows(resp)
    THEN Geo(GP_Compute(q, NoLoc), GeoThrew(GP_NominatimError(q, resp)))
    ELSE Geo(GP_Compute(q, GP_FromNominatim(resp.body.rows[1])),
             GeoReturned(GP_FromNominatim(resp.body.rows[1])))

\* execute without the try around its geocodePlace call
GP_AfterNominatim_Uncaught(q, resp) ==
    IF GP_NominatimThrows(resp)
    THEN Geo(Finish(NoLoc, <<>>, Throw(GP_NominatimError(q, resp))),
             GeoThrew(GP_NominatimError(q, resp)))
    ELSE Geo(GP_Compute(q, GP_FromNominatim(resp.body.rows[1])),
             GeoReturned(GP_FromNominatim(resp.body.rows[1])))

\* geocodePlace resumes with the Nominatim response: it throws, and execute
\* catches, or it returns the location
GP_AfterNominatim(q, resp) ==
    IF GP_NominatimThrows(resp)
    THEN Geo(Finish(NoLoc, <<>>, Return(GP_Error("couldn't resolve the place", q.place))),
             GeoThrew(GP_NominatimError(q, resp)))
    ELSE Geo(GP_Compute(q, GP_FromNominatim(resp.body.rows[1])),
             GeoReturned(GP_FromNominatim(resp.body.rows[1])))

\* execute resumes with the compute response
GP_AfterCompute(q, l, resp) ==
    LET out == GP_callAstrologyApi(GP_Endpoint(q), resp)
    IN  IF out.threw
        THEN Finish(l, <<out>>, Return(GP_ComputeFailed(q)))
        ELSE Finish(l, <<out>>, Return(GP_Success(q, l, out.value)))

(***************************************************************************)
(* Draft GD: src/app/api/chat/tools/astrology.ts, lines 300-508.           *)
(***************************************************************************)
\* callAstrologyApi without its res.ok test
GD_callAstrologyApi_IgnoresStatus(endpoint, resp) ==
    IF ~resp.net THEN ApiThrew(endpoint, Err("network", 0, "", NoBody, <<>>))
    ELSE ApiReturned(endpoint, resp.body)

\* callAstrologyApi, once fetch has settled with resp: a body that is no
\* JSON is returned as text
GD_callAstrologyApi(endpoint, resp) ==
    IF ~resp.net THEN ApiThrew(endpoint, Err("network", 0, "", NoBody, <<>>))
    ELSE IF ~Ok(resp)
    THEN ApiThrew(endpoint, Err("http", resp.status, endpoint, resp.body, <<>>))
    ELSE ApiReturned(endpoint, resp.body)

TxtUnknown == <<"u", "n", "k", "n", "o", "w", "n">>

\* location.place_name || `${place.trim()} (${location.country_code || 'unknown'})`
GD_ResolvedPlace(q, row) ==
    IF row.place_name # <<>>
    THEN row.place_name
    ELSE Trim(q.place) \o <<" ", "(">>
         \o (IF row.country_code # <<>> THEN row.country_code ELSE TxtUnknown)
         \o <<")">>

\* !Array.isArray(geoResp?.geonames) || geonames.length === 0
GD_NoGeonames(body) ==
    \/ body.kind # "object"
    \/ ~body.hasGeonames
    \/ Len(body.rows) = 0

\* the geo_details error result without its message
GD_GeoError_NoMessage(e) ==
    [NoResult EXCEPT !.type = "error", !.step = "geo_details", !.technical = e]

GD_GeoError(e) ==
    [NoResult EXCEPT !.type = "error", !.step = "geo_details",
        !.message = "Failed to contact astrology geo service.", !.technical = e]

\* the message built from the trimmed place instead of the place as given
GD_NotFound_Trimmed(q) ==
    [NoResult EXCEPT !.type = "location_not_found",
        !.message = "Astrology provider could not find a match", !.msgPlace = Trim(q.place)]

GD_NotFound(q) ==
    [NoResult EXCEPT !.type = "location_not_found",
        !.message = "Astrology provider could not find a match", !.msgPlace = q.place]

GD_Unsupported ==
    [NoResult EXCEPT !.type = "error", !.step = "queryType",
        !.message = "Unsupported queryType in astrologyTool."]

GD_Success(q, l, body) ==
    [NoResult EXCEPT !.type = q.queryType, !.name = q.name, !.place = l.place,
        !.lat = l.lat, !.lon = l.lon, !.tzone = l.tzone, !.payload = body]

GD_Supported(q) == q.queryType \in {"birth_details", "daily_nakshatra_prediction"}

GD_Endpoint(q) ==
    IF q.queryType = "birth_details" THEN "astro_details" ELSE "daily_nakshatra_prediction"

\* execute up to its first await
GD_Start(q) ==
    IF AuthThrows
    THEN Geo(Finish(NoLoc, <<ApiThrew("geo_details", AuthError)>>, Return(GD_GeoError(AuthError))),
             GeoFailed(AuthError))
    ELSE Cont("geo_details", NoLoc,
              <<Request(AstrologyHost, "geo_details", Trim(q.place), Undef, Undef, Undef, "")>>,
              <<>>, Pending)

\* step 3, the main astrology call: not inside any try
GD_Compute(q, l) ==
    IF ~GD_Supported(q) THEN Finish(l, <<>>, Return(GD_Unsupported))
    ELSE IF AuthThrows
    THEN Finish(l, <<ApiThrew(GD_Endpoint(q), AuthError)>>, Throw(AuthError))
    ELSE Cont("compute", l,
              <<Request(AstrologyHost, GD_Endpoint(q), <<>>, l.lat, l.lon, l.tzone, "")>>,
              <<>>, Pending)

\* the timezone call and the compute call started together, the compute
\* call with the default offset
GD_Timezone_WithCompute(q, l) ==
    IF AuthThrows
    THEN LET c == GD_Compute(q, [l EXCEPT !.tzone = Num(55000)])
         IN  [c EXCEPT !.called = <<ApiThrew("timezone_with_dst", AuthError)>> \o @]
    ELSE Cont("timezone", l,
              <<Request(AstrologyHost, "timezone_with_dst", <<>>, l.lat, l.lon, Undef, ""),
                Request(AstrologyHost, GD_Endpoint(q), <<>>, l.lat, l.lon, Num(55000), "")>>,
              <<>>, Pending)

\* step 2, the timezone call: the offset starts at the default 5.5
GD_Timezone(q, l) ==
    IF AuthThrows
    THEN LET c == GD_Compute(q, [l EXCEPT !.tzone = Num(55000)])
         IN  [c EXCEPT !.called = <<ApiThrew("timezone_with_dst", AuthError)>> \o @]
    ELSE Cont("timezone", l,
              <<Request(AstrologyHost, "timezone_with_dst", <<>>, l.lat, l.lon, Undef, "")>>,
              <<>>, Pending)

\* a geo stage that reports every failure as a place that was not found
GD_AfterGeoDetails_AlwaysNotFound(q, resp) ==
    LET out == GD_callAstrologyApi("geo_details", resp)
    IN  IF out.threw \/ GD_NoGeonames(out.value)
        THEN Geo(Finish(NoLoc, <<out>>, Return(GD_NotFound(q))),
                 GeoFailed(Err("no_location", 0, "", NoBody, q.place)))
        ELSE LET location == out.value.rows[1]
                 l == [lat |-> NumberOf(location.latitude),
                       lon |-> NumberOf(location.longitude),
                       tzone |-> Undef, timezoneId |-> "",
                       place |-> GD_ResolvedPlace(q, location)]
                 c == GD_Timezone(q, l)
             IN  Geo([c EXCEPT !.called = <<out>> \o @], GeoReturned(l))

\* execute resumes with the geo_details response
GD_AfterGeoDetails(q, resp) ==
    LET out == GD_callAstrologyApi("geo_details", resp)
    IN  IF out.threw
        THEN Geo(Finish(NoLoc, <<out>>, Return(GD_GeoError(out.err))), GeoFailed(out.err))
        ELSE IF GD_NoGeonames(out.value)
        THEN Geo(Finish(NoLoc, <<out>>, Return(GD_NotFound(q))),
                 GeoFailed(Err("no_location", 0, "", NoBody, q.place)))
        ELSE LET location == out.value.rows[1]
                 l == [lat |-> NumberOf(location.latitude),
                       lon |-> NumberOf(location.longitude),
                       tzone |-> Undef, timezoneId |-> "",
                       place |-> GD_ResolvedPlace(q, location)]
                 c == GD_Timezone(q, l)
             IN  Geo([c EXCEPT !.called = <<out>> \o @], GeoReturned(l))

\* the offset after the timezone_with_dst call settled
GD_Offset(out) ==
    IF ~out.threw /\ out.value.kind = "object" /\ IsNumberType(out.value.timezone)
    THEN out.value.timezone
    ELSE Num(55000)

\* execute resumes with the timezone_with_dst response
GD_AfterTimezone(q, l, resp) ==
    LET out == GD_callAstrologyApi("timezone_with_dst", resp)
        c == GD_Compute(q, [l EXCEPT !.tzone = GD_Offset(out)])
    IN  [c EXCEPT !.called = <<out>> \o @]

\* execute resumes with the compute response
GD_AfterCompute(q, l, resp) ==
    LET out == GD_callAstrologyApi(GD_Endpoint(q), resp)
    IN  IF out.threw
        THEN Finish(l, <<out>>, Throw(out.err))
        ELSE Finish(l, <<out>>, Return(GD_Success(q, l, out.value)))

(***************************************************************************)
(* Draft ST: src/unnamed/part_003.                                         *)
(***************************************************************************)
ST_callAstrologyApi(endpoint, resp) ==
    IF ~resp.net THEN ApiThrew(endpoint, Err("network", 0, "", NoBody, <<>>))
    ELSE IF ~Ok(resp)
    THEN ApiThrew(endpoint, Err("http", resp.status, endpoint, resp.body, <<>>))
    ELSE IF resp.body.kind = "text"
    THEN ApiThrew(endpoint, Err("parse", 0, "", NoBody, <<>>))
    ELSE ApiReturned(endpoint, resp.body)

\* s up to its first comma
RECURSIVE FirstSegment(_)
FirstSegment(s) ==
    IF s = <<>> \/ Head(s) = "," THEN <<>> ELSE <<Head(s)>> \o FirstSegment(Tail(s))

\* the key cut at the first comma
ST_Key_FirstSegment(place) == ToLowerCase(Trim(FirstSegment(Trim(place))))

\* const key = place.trim().toLowerCase()
ST_Key(place) == ToLowerCase(Trim(place))

\* the location returned on a table hit
ST_FromTable(place) ==
    LET fb == TableGet(ST_Key(place))
    IN  [lat |-> fb.lat, lon |-> fb.lon, tzone |-> fb.tzone,
         timezoneId |-> fb.timezoneId, place |-> Trim(place)]

\* the location built from the first Nominatim row
ST_FromNominatim(best) ==
    LET inIndia == ToLowerCase(best.country_code) = <<"i", "n">>
    IN  [lat |-> ParseFloat(best.lat), lon |-> ParseFloat(best.lon),
         tzone |-> IF inIndia THEN Num(55000) ELSE Num(0),
         timezoneId |-> IF inIndia THEN "Asia/Kolkata" ELSE "UTC",
         place |-> best.place_name]

\* the Nominatim part of geocodePlace throws
ST_NominatimThrows(resp) ==
    \/ ~Ok(resp)
    \/ resp.body.kind # "array"
    \/ Len(resp.body.rows) = 0

\* the Error it throws
ST_NominatimError(q, resp) ==
    IF ~resp.net THEN Err("network", 0, "", NoBody, <<>>)
    ELSE IF ~Ok(resp) THEN Err("osm_status", resp.status, "", NoBody, <<>>)
    ELSE IF resp.body.kind = "text" THEN Err("parse", 0, "", NoBody, <<>>)
    ELSE Err("no_location", 0, "", NoBody, Trim(q.place))

ST_GeocodeError(q) ==
    [NoResult EXCEPT !.type = "astrology_error",
        !.message = "I couldn't resolve the place of birth", !.msgPlace = q.place]

ST_EngineError(e) ==
    [NoResult EXCEPT !.type = "astrology_error",
        !.message = "Astrology engine failed while generating your chart.", !.technical = e]

ST_Success(q, l, body) ==
    [NoResult EXCEPT
        !.type = IF q.queryType = "basic_traits" THEN "basic_traits" ELSE "birth_chart",
        !.name = q.name, !.place = l.place, !.timezoneId = l.timezoneId,
        !.tzone = l.tzone, !.lat = l.lat, !.lon = l.lon, !.payload = body]

\* step 2 of execute: the astro_details call, inside a try
ST_Compute(q, l) ==
    IF AuthThrows
    THEN Finish(l, <<ApiThrew("astro_details", AuthError)>>, Return(ST_EngineError(AuthError)))
    ELSE Cont("compute", l,
              <<Request(AstrologyHost, "astro_details", <<>>, l.lat, l.lon, l.tzone, "")>>,
              <<>>, Pending)

\* the Error geocodePlace throws for a place that trims to nothing
ST_EmptyPlace == Err("empty_place", 0, "", NoBody, <<>>)

\* geocodePlace without the table lookup before the network call
ST_Start_NoTable(q) ==
    IF Trim(q.place) = <<>>
    THEN Geo(Finish(NoLoc, <<>>, Return(ST_GeocodeError(q))), GeoThrew(ST_EmptyPlace))
    ELSE Cont("nominatim", NoLoc,
              <<Request(NominatimHost, "search", Trim(q.place), Undef, Undef, Undef, "")>>,
              <<>>, Pending)

\* execute up to its first await: geocodePlace looks the table up first
ST_Start(q) ==
    IF Trim(q.place) = <<>>
    THEN Geo(Finish(NoLoc, <<>>, Return(ST_GeocodeError(q))), GeoThrew(ST_EmptyPlace))
    ELSE IF TableHit(ST_Key(q.place))
    THEN Geo(ST_Compute(q, ST_FromTable(q.place)), GeoReturned(ST_FromTable(q.place)))
    ELSE Cont("nominatim", NoLoc,
              <<Request(NominatimHost, "search", Trim(q.place), Undef, Undef, Undef, "")>>,
              <<>>, Pending)

\* geocodePlace resumes with the Nominatim response
ST_AfterNominatim(q, resp) ==
    IF ST_NominatimThrows(resp)
    THEN Geo(Finish(NoLoc, <<>>, Return(ST_GeocodeError(q))),
             GeoThrew(ST_NominatimError(q, resp)))
    ELSE Geo(ST_Compute(q, ST_FromNominatim(resp.body.rows[1])),
             GeoReturned(ST_FromNominatim(resp.body.rows[1])))

\* execute resumes with the astro_details response
ST_AfterCompute(q, l, resp) ==
    LET out == ST_callAstrologyApi("astro_details", resp)
    IN  IF out.threw
        THEN Finish(l, <<out>>, Return(ST_EngineError(out.err)))
        ELSE Finish(l, <<out>>, Return(ST_Success(q, l, out.value)))

(***************************************************************************)
(* Draft GU: src/unnamed/part_004.                                         *)
(***************************************************************************)
\* callAstrologyApi, once fetch has settled with resp: the Error of a
\* non-2xx status does not name the endpoint
GU_callAstrologyApi(endpoint, resp) ==
    IF ~resp.net THEN ApiThrew(endpoint, Err("network", 0, "", NoBody, <<>>))
    ELSE IF ~Ok(resp)
    THEN ApiThrew(endpoint, Err("http", resp.status, "", resp.body, <<>>))
    ELSE IF resp.body.kind = "text"
    THEN ApiThrew(endpoint, Err("parse", 0, "", NoBody, <<>>))
    ELSE ApiReturned(endpoint, resp.body)

\* String(x) of an identifier or a text the provider may have left out
StringOfId(s) == IF s = "" THEN "undefined" ELSE s
StringOfText(t) ==
    IF t = <<>> THEN <<"u", "n", "d", "e", "f", "i", "n", "e", "d">> ELSE t

\* err.message
GU_Message(e) ==
    CASE e.kind = "config" -> "Astrology API credentials are not configured."
      [] e.kind = "http" -> "AstrologyAPI error"
      [] e.kind = "no_location" -> "I couldn't find any location"
      [] e.kind = "no_offset" -> "Couldn't resolve timezone offset"
      [] e.kind = "network" -> "fetch failed"
      [] OTHER -> "Unexpected token in JSON"

\* the catch of execute: the Error's message goes to the model
GU_Error(e) ==
    [NoResult EXCEPT !.type = "error", !.message = GU_Message(e),
        !.msgPlace = e.place, !.technical = e]

GU_NotUnderstood ==
    [NoResult EXCEPT !.type = "error",
        !.message = "I couldn't understand whether you wanted a birth chart or a daily prediction."]

GU_Success(q, l, body) ==
    [NoResult EXCEPT !.type = q.queryType, !.name = q.name, !.place = l.place,
        !.timezoneId = l.timezoneId, !.tzone = l.tzone, !.payload = body]

GU_Supported(q) == q.queryType \in {"birth_chart", "daily_prediction"}

GU_Endpoint(q) ==
    IF q.queryType = "birth_chart" THEN "astro_details" ELSE "daily_nakshatra_prediction"

\* lookupGeo, after its callAstrologyApi returned data
GU_lookupGeo(place, data) ==
    IF data.kind # "object" \/ ~data.hasGeonames \/ Len(data.rows) = 0
    THEN [threw |-> TRUE, err |-> Err("no_location", 0, "", NoBody, place), value |-> NoLoc]
    ELSE LET best == data.rows[1]
         IN  [threw |-> FALSE, err |-> NoErr,
              value |-> [lat |-> NumberOf(best.latitude), lon |-> NumberOf(best.longitude),
                         tzone |-> Undef, timezoneId |-> StringOfId(best.timezone_id),
                         place |-> StringOfText(best.place_name)]]

\* lookupTimezoneOffset, after its callAstrologyApi returned data
GU_lookupTimezoneOffset(timezoneId, data) ==
    LET offset == ParseFloat(IF data.kind = "object" THEN data.timezone ELSE Undef)
    IN  IF IsNaN(offset)
        THEN [threw |-> TRUE, err |-> Err("no_offset", 0, "", NoBody, <<>>), value |-> NaN]
        ELSE [threw |-> FALSE, err |-> NoErr, value |-> offset]

\* execute up to its first await
GU_Start(q) ==
    IF AuthThrows
    THEN Geo(Finish(NoLoc, <<ApiThrew("geo_details", AuthError)>>, Return(GU_Error(AuthError))),
             GeoThrew(AuthError))
    ELSE Cont("geo_details", NoLoc,
              <<Request(AstrologyHost, "geo_details", q.place, Undef, Undef, Undef, "")>>,
              <<>>, Pending)

\* step C of execute: the compute call
GU_Compute(q, l) ==
    IF ~GU_Supported(q) THEN Finish(l, <<>>, Return(GU_NotUnderstood))
    ELSE IF AuthThrows
    THEN Finish(l, <<ApiThrew(GU_Endpoint(q), AuthError)>>, Return(GU_Error(AuthError)))
    ELSE Cont("compute", l,
              <<Request(AstrologyHost, GU_Endpoint(q), <<>>, l.lat, l.lon, l.tzone, "")>>,
              <<>>, Pending)

\* execute resumes with the geo_details response, then asks for the offset
GU_AfterGeoDetails(q, resp) ==
    LET out == GU_callAstrologyApi("geo_details", resp)
        geo == GU_lookupGeo(q.place, out.value)
    IN  IF out.threw
        THEN Geo(Finish(NoLoc, <<out>>, Return(GU_Error(out.err))), GeoThrew(out.err))
        ELSE IF geo.threw
        THEN Geo(Finish(NoLoc, <<out>>, Return(GU_Error(geo.err))), GeoThrew(geo.err))
        ELSE IF AuthThrows
        THEN Geo(Finish(geo.value, <<out, ApiThrew("timezone", AuthError)>>,
                        Return(GU_Error(AuthError))),
                 GeoReturned(geo.value))
        ELSE Geo(Cont("timezone", geo.value,
                      <<Request(AstrologyHost, "timezone", <<>>, Undef, Undef, Undef,
                                geo.value.timezoneId)>>,
                      <<out>>, Pending),
                 GeoReturned(geo.value))

\* execute with lookupTimezoneOffset outside its try
GU_AfterTimezone_Uncaught(q, l, resp) ==
    LET out == GU_callAstrologyApi("timezone", resp)
        tz == GU_lookupTimezoneOffset(l.timezoneId, out.value)
    IN  IF out.threw THEN Finish(l, <<out>>, Throw(out.err))
        ELSE IF tz.threw THEN Finish(l, <<out>>, Throw(tz.err))
        ELSE LET c == GU_Compute(q, [l EXCEPT !.tzone = tz.value])
             IN  [c EXCEPT !.called = <<out>> \o @]

\* execute resumes with the timezone response
GU_AfterTimezone(q, l, resp) ==
    LET out == GU_callAstrologyApi("timezone", resp)
        tz == GU_lookupTimezoneOffset(l.timezoneId, out.value)
    IN  IF out.threw THEN Finish(l, <<out>>, Return(GU_Error(out.err)))
        ELSE IF tz.threw THEN Finish(l, <<out>>, Return(GU_Error(tz.err)))
        ELSE LET c == GU_Compute(q, [l EXCEPT !.tzone = tz.value])
             IN  [c EXCEPT !.called = <<out>> \o @]

\* execute resumes with the compute response
GU_AfterCompute(q, l, resp) ==
    LET out == GU_callAstrologyApi(GU_Endpoint(q), resp)
    IN  IF out.threw
        THEN Finish(l, <<out>>, Return(GU_Error(out.err)))
        ELSE Finish(l, <<out>>, Return(GU_Success(q, l, out.value)))

(***************************************************************************)
(* The safe wrapper of the chat route: src/app/api/chat/route.ts, 27-54.   *)
(***************************************************************************)
DegradedNoData ==
    [NoResult EXCEPT !.ok = "false",
        !.message = "Astrology service returned no data. Please answer using general Vedic astrology knowledge only."]

DegradedUnavailable ==
    [NoResult EXCEPT !.ok = "false",
        !.message = "The external astrology service is temporarily unavailable. Please answer using general Vedic astrology principles only, without external API data."]

\* the wrapper without its catch: a thrown Error propagates to the caller
safeExecute_NoCatch(settled) ==
    CASE settled.state = "threw" -> Throw(settled.err)
      [] settled.state = "undefined" -> Return(DegradedNoData)
      [] OTHER -> Return(settled.value)

\* a wrapper that also replaces the failure results the tool returned
safeExecute_DegradesErrors(settled) ==
    CASE settled.state = "threw" -> Return(DegradedUnavailable)
      [] settled.state = "undefined" -> Return(DegradedNoData)
      [] OTHER -> IF settled.value.payload # NoBody
                  THEN Return(settled.value)
                  ELSE Return(DegradedUnavailable)

\* astrologyTool.execute of route.ts, once rawAstrologyTool.execute has settled
safeExecute(settled) ==
    CASE settled.state = "threw" -> Return(DegradedUnavailable)
      [] settled.state = "undefined" -> Return(DegradedNoData)
      [] OTHER -> Return(settled.value)

\* what a wrapped tool of unknown make (rawAstrologyTool as any) may do
AnySettlements ==
    {ReturnUndefined,
     Throw(Err("network", 0, "", NoBody, <<>>)),
     Throw(Err("type", 0, "", NoBody, <<>>)),
     Return([NoResult EXCEPT !.type = "birth_chart", !.payload = PayloadBody(1)]),
     Return(GP_Error("couldn't resolve the place", <<>>))}

(***************************************************************************)
(* The chat route: POST of src/app/api/chat/route.ts, 56-142.              *)
(***************************************************************************)
\* the body of a chat request: no JSON; no message of role user; a latest
\* user message without text; a latest user message with text
Bodies == {"malformed", "no_user_message", "no_text", "text"}

\* a chat request: where POST stands, what moderation said of the latest
\* user message, and what the handler answered
Chat(stage, body, verdict, reply) ==
    [stage |-> stage, body |-> body, verdict |-> verdict, reply |-> reply]

Received(body) == Chat("received", body, "none", "none")

\* how isContentFlagged settles: it throws, or returns the flag and,
\* optionally, a denial message
ModerationOutcomes ==
    {[threw |-> TRUE, flagged |-> FALSE, denialMessage |-> ""],
     [threw |-> FALSE, flagged |-> FALSE, denialMessage |-> ""],
     [threw |-> FALSE, flagged |-> TRUE, denialMessage |-> ""],
     [threw |-> FALSE, flagged |-> TRUE, denialMessage |-> "custom"]}

\* the main chat logic: streamText with the tools and the response of its
\* stream, or, when that throws, the fallback stream of the catch
POST_MainChat(r, verdict, threw) ==
    IF threw
    THEN Chat("fallback", r.body, verdict, "fallback-error-text")
    ELSE Chat("streaming", r.body, verdict, "model")

\* POST once the body of the request is read, up to its next await
POST_AfterBody(r, threw) ==
    CASE r.body = "malformed" -> Chat("rejected", r.body, "none", "none")
      [] r.body = "text" -> Chat("moderating", r.body, "none", "none")
      [] OTHER -> POST_MainChat(r, "skipped", threw)

\* POST with the test of moderationResult.flagged left out
POST_AfterModeration_IgnoresFlag(r, m, threw) ==
    IF m.threw THEN Chat("rejected", r.body, "threw", "none")
    ELSE POST_MainChat(r, IF m.flagged THEN "flagged" ELSE "clean", threw)

\* POST resumes with the outcome of isContentFlagged
POST_AfterModeration(r, m, threw) ==
    IF m.threw THEN Chat("rejected", r.body, "threw", "none")
    ELSE IF m.flagged
    THEN Chat("denied", r.body, "flagged",
              IF m.denialMessage # "" THEN m.denialMessage
              ELSE "Your message violates our guidelines. I can't answer that.")
    ELSE POST_MainChat(r, "clean", threw)

\* the model runs, and may call the tools handed to streamText
ModelCallsTools(r) == r.stage = "streaming"

(***************************************************************************)
(* The chat page: src/app/page.tsx (and the same code in                   *)
(* src/unnamed/part_002) keeps the previous chats in `history`; the        *)
(* multi-conversation page src/unnamed/part_000 keeps `conversations` and  *)
(* `activeId`.  A list of messages is represented by its length; an id     *)
(* `hist-${n}` or `conv-${n}` by the pair of its prefix and n.             *)
(***************************************************************************)
\* Array.prototype.slice(0, n)
Slice(s, n) == SubSeq(s, 1, IF Len(s) < n THEN Len(s) ELSE n)

\* [historyItem, ...prev].slice(0, 5): prev kept whole
archiveCurrentChatToHistory_NoSlice(prev, msgs, t) ==
    IF msgs = 0 THEN prev
    ELSE <<[id |-> <<"hist", t>>, messages |-> msgs]>> \o prev

\* archiveCurrentChatToHistory: the history after the chat msgs was archived at time t
archiveCurrentChatToHistory(prev, msgs, t) ==
    IF msgs = 0 THEN prev
    ELSE Slice(<<[id |-> <<"hist", t>>, messages |-> msgs]>> \o prev, 5)

\* deleteHistoryItem: prev.filter((h) => h.id !== id)
deleteHistoryItem(prev, id) == SelectSeq(prev, LAMBDA h : h.id # id)

\* a Conversation of part_000
Conversation(id, msgs) == [id |-> id, messages |-> msgs]

STATIC_DEFAULT_CONVERSATION == Conversation(<<"initial">>, 0)

\* conversationsState.find((c) => c.id === id), for an id that is in the list
Find(convs, id) ==
    convs[CHOOSE i \in 1..Len(convs) :
              convs[i].id = id /\ \A j \in 1..(i - 1) : convs[j].id # id]

\* the effect that writes the current messages into the active conversation
PersistActive(convs, id, msgs) ==
    [i \in 1..Len(convs) |->
        IF convs[i].id = id THEN [convs[i] EXCEPT !.messages = msgs] ELSE convs[i]]

\* handleNewChat at time t, followed by the effects it triggers
handleNewChat(prev, t) ==
    [conversations |-> PersistActive(<<Conversation(<<"conv", t>>, 0)>> \o prev, <<"conv", t>>, 0),
     activeId |-> <<"conv", t>>,
     messages |-> 0]

\* a delete handler that leaves the list empty when the last conversation goes
handleDeleteConversation_NoReplacement(prev, id, active, msgs) ==
    LET filtered == SelectSeq(prev, LAMBDA c : c.id # id)
        nextActive == IF id = active
                      THEN (IF Len(filtered) > 0 THEN filtered[1].id ELSE <<"none">>)
                      ELSE active
    IN  [conversations |-> filtered,
         activeId |-> nextActive,
         messages |-> IF nextActive # active /\ Len(filtered) > 0
                      THEN Find(filtered, nextActive).messages
                      ELSE msgs]

\* handleDeleteConversation, followed by the effect that loads the
\* conversation that became active
handleDeleteConversation(prev, id, active, msgs) ==
    LET filtered == SelectSeq(prev, LAMBDA c : c.id # id)
        nextActive == IF id = active
                      THEN (IF Len(filtered) > 0 THEN filtered[1].id ELSE <<"none">>)
                      ELSE active
    IN  IF Len(filtered) = 0
        THEN [conversations |-> <<STATIC_DEFAULT_CONVERSATION>>,
              activeId |-> STATIC_DEFAULT_CONVERSATION.id,
              messages |-> 0]
        ELSE [conversations |-> filtered,
              activeId |-> nextActive,
              messages |-> IF nextActive # active
                           THEN Find(filtered, nextActive).messages
                           ELSE msgs]

\* the page as it is while the tool pipeline runs
PageAtRest ==
    /\ now = 0
    /\ messages = 0
    /\ history = <<>>
    /\ conversations = <<STATIC_DEFAULT_CONVERSATION>>
    /\ activeId = STATIC_DEFAULT_CONVERSATION.id
    /\ clicked = "none"

(***************************************************************************)
(* The state machine.                                                      *)
(***************************************************************************)
Init ==
    /\ variant \in Drafts \cup {"ANY"}
    /\ credsSet \in BOOLEAN
    /\ procs = {1}
    /\ upstream = AllResponses
    /\ post \in [procs -> {Received(b) : b \in Bodies}]
    /\ input \in [procs -> Queries(variant)]
    /\ pc = [p \in procs |-> "start"]
    /\ loc = [p \in procs |-> NoLoc]
    /\ log = [p \in procs |-> <<>>]
    /\ resps = [p \in procs |-> <<>>]
    /\ calls = [p \in procs |-> <<>>]
    /\ geocoded = [p \in procs |-> GeoPending]
    /\ raw = [p \in procs |-> Pending]
    /\ result = [p \in procs |-> Pending]
    /\ PageAtRest

\* the resolved location kept in one module-level variable instead of a
\* local of execute: every invocation reads what the last one wrote
Apply_SharedLocation(p, c, got) ==
    /\ pc' = [pc EXCEPT ![p] = c.pc]
    /\ loc' = [q \in procs |-> c.loc]
    /\ log' = [log EXCEPT ![p] = @ \o c.sent]
    /\ resps' = [resps EXCEPT ![p] = @ \o got]
    /\ calls' = [calls EXCEPT ![p] = @ \o c.called]
    /\ geocoded' = [geocoded EXCEPT ![p] = IF c.geo = GeoPending THEN @ ELSE c.geo]
    /\ raw' = [raw EXCEPT ![p] = c.raw]
    /\ UNCHANGED pageVars
    /\ UNCHANGED <<variant, credsSet, procs, upstream, post, input, result>>

\* invocation p takes the step c of its execute function, having received got
Apply(p, c, got) ==
    /\ pc' = [pc EXCEPT ![p] = c.pc]
    /\ loc' = [loc EXCEPT ![p] = c.loc]
    /\ log' = [log EXCEPT ![p] = @ \o c.sent]
    /\ resps' = [resps EXCEPT ![p] = @ \o got]
    /\ calls' = [calls EXCEPT ![p] = @ \o c.called]
    /\ geocoded' = [geocoded EXCEPT ![p] = IF c.geo = GeoPending THEN @ ELSE c.geo]
    /\ raw' = [raw EXCEPT ![p] = c.raw]
    /\ UNCHANGED pageVars
    /\ UNCHANGED <<variant, credsSet, procs, upstream, post, input, result>>

\* POST resumes once req.json() has settled
POST_BodyRead ==
    \E p \in procs :
        /\ post[p].stage = "received"
        /\ \E threw \in BOOLEAN :
              post' = [post EXCEPT ![p] = POST_AfterBody(post[p], threw)]
        /\ UNCHANGED pageVars
        /\ UNCHANGED <<variant, credsSet, procs, upstream, input, pc, loc, log, resps, calls,
                       geocoded, raw, result>>

\* POST resumes once isContentFlagged has settled
POST_ModerationDone ==
    \E p \in procs :
        /\ post[p].stage = "moderating"
        /\ \E m \in ModerationOutcomes, threw \in BOOLEAN :
              post' = [post EXCEPT ![p] = POST_AfterModeration(post[p], m, threw)]
        /\ UNCHANGED pageVars
        /\ UNCHANGED <<variant, credsSet, procs, upstream, input, pc, loc, log, resps, calls,
                       geocoded, raw, result>>

GP_Execute ==
    \E p \in procs :
        /\ variant = "GP" /\ pc[p] = "start"
        /\ ModelCallsTools(post[p])
        /\ Apply(p, GP_Start(input[p]), <<>>)

GP_GeoDetailsDone ==
    \E p \in procs :
        /\ variant = "GP" /\ pc[p] = "geo_details"
        /\ \E resp \in GeoResponses \cap upstream : Apply(p, GP_AfterGeoDetails(input[p], resp), <<resp>>)

GP_NominatimDone ==
    \E p \in procs :
        /\ variant = "GP" /\ pc[p] = "nominatim"
        /\ \E resp \in OsmResponses \cap upstream : Apply(p, GP_AfterNominatim(input[p], resp), <<resp>>)

GP_ComputeDone ==
    \E p \in procs :
        /\ variant = "GP" /\ pc[p] = "compute"
        /\ \E resp \in ComputeResponses \cap upstream :
              Apply(p, GP_AfterCompute(input[p], loc[p], resp), <<resp>>)

GD_Execute ==
    \E p \in procs :
        /\ variant = "GD" /\ pc[p] = "start"
        /\ ModelCallsTools(post[p])
        /\ Apply(p, GD_Start(input[p]), <<>>)

GD_GeoDetailsDone ==
    \E p \in procs :
        /\ variant = "GD" /\ pc[p] = "geo_details"
        /\ \E resp \in GeoResponses \cap upstream : Apply(p, GD_AfterGeoDetails(input[p], resp), <<resp>>)

GD_TimezoneDone ==
    \E p \in procs :
        /\ variant = "GD" /\ pc[p] = "timezone"
        /\ \E resp \in TimezoneResponses \cap upstream :
              Apply(p, GD_AfterTimezone(input[p], loc[p], resp), <<resp>>)

GD_ComputeDone ==
    \E p \in procs :
        /\ variant = "GD" /\ pc[p] = "compute"
        /\ \E resp \in ComputeResponses \cap upstream :
              Apply(p, GD_AfterCompute(input[p], loc[p], resp), <<resp>>)

ST_Execute ==
    \E p \in procs :
        /\ variant = "ST" /\ pc[p] = "start"
        /\ ModelCallsTools(post[p])
        /\ Apply(p, ST_Start(input[p]), <<>>)

ST_NominatimDone ==
    \E p \in procs :
        /\ variant = "ST" /\ pc[p] = "nominatim"
        /\ \E resp \in OsmResponses \cap upstream : Apply(p, ST_AfterNominatim(input[p], resp), <<resp>>)

ST_ComputeDone ==
    \E p \in procs :
        /\ variant = "ST" /\ pc[p] = "compute"
        /\ \E resp \in ComputeResponses \cap upstream :
              Apply(p, ST_AfterCompute(input[p], loc[p], resp), <<resp>>)

GU_Execute ==
    \E p \in procs :
        /\ variant = "GU" /\ pc[p] = "start"
        /\ ModelCallsTools(post[p])
        /\ Apply(p, GU_Start(input[p]), <<>>)

GU_GeoDetailsDone ==
    \E p \in procs :
        /\ variant = "GU" /\ pc[p] = "geo_details"
        /\ \E resp \in GeoResponses \cap upstream : Apply(p, GU_AfterGeoDetails(input[p], resp), <<resp>>)

GU_TimezoneDone ==
    \E p \in procs :
        /\ variant = "GU" /\ pc[p] = "timezone"
        /\ \E resp \in TimezoneResponses \cap upstream :
              Apply(p, GU_AfterTimezone(input[p], loc[p], resp), <<resp>>)

GU_ComputeDone ==
    \E p \in procs :
        /\ variant = "GU" /\ pc[p] = "compute"
        /\ \E resp \in ComputeResponses \cap upstream :
              Apply(p, GU_AfterCompute(input[p], loc[p], resp), <<resp>>)

\* a wrapped tool of unknown make settles
Any_Execute ==
    \E p \in procs :
        /\ variant = "ANY" /\ pc[p] = "start"
        /\ ModelCallsTools(post[p])
        /\ \E s \in AnySettlements : Apply(p, Finish(NoLoc, <<>>, s), <<>>)

\* a wrapper that keeps a module-level flag and serves only its first call
SafeExecuteDone_FirstCallOnly ==
    \E p \in procs :
        /\ pc[p] = "settled"
        /\ pc' = [pc EXCEPT ![p] = "done"]
        /\ result' = [result EXCEPT ![p] =
                        IF \E q \in procs \ {p} : pc[q] = "done"
                        THEN Return(DegradedNoData)
                        ELSE safeExecute(raw[p])]
        /\ UNCHANGED pageVars
        /\ UNCHANGED <<variant, credsSet, procs, upstream, post, input, loc, log, resps, calls,
                       geocoded, raw>>

\* the wrapper resumes after its await and returns to the model
SafeExecuteDone ==
    \E p \in procs :
        /\ pc[p] = "settled"
        /\ pc' = [pc EXCEPT ![p] = "done"]
        /\ result' = [result EXCEPT ![p] = safeExecute(raw[p])]
        /\ UNCHANGED pageVars
        /\ UNCHANGED <<variant, credsSet, procs, upstream, post, input, loc, log, resps, calls, geocoded, raw>>

Next ==
    \/ POST_BodyRead
    \/ POST_ModerationDone
    \/ GP_Execute
    \/ GP_GeoDetailsDone
    \/ GP_NominatimDone
    \/ GP_ComputeDone
    \/ GD_Execute
    \/ GD_GeoDetailsDone
    \/ GD_TimezoneDone
    \/ GD_ComputeDone
    \/ ST_Execute
    \/ ST_NominatimDone
    \/ ST_ComputeDone
    \/ GU_Execute
    \/ GU_GeoDetailsDone
    \/ GU_TimezoneDone
    \/ GU_ComputeDone
    \/ Any_Execute
    \/ SafeExecuteDone

Spec == Init /\ [][Next]_vars

\* the steps of a tool invocation: the continuations the event loop runs
ToolStep ==
    \/ GP_Execute \/ GP_GeoDetailsDone \/ GP_NominatimDone \/ GP_ComputeDone
    \/ GD_Execute \/ GD_GeoDetailsDone \/ GD_TimezoneDone \/ GD_ComputeDone
    \/ ST_Execute \/ ST_NominatimDone \/ ST_ComputeDone
    \/ GU_Execute \/ GU_GeoDetailsDone \/ GU_TimezoneDone \/ GU_ComputeDone
    \/ Any_Execute \/ SafeExecuteDone

\* one invocation, every response the providers may give, and the queries
\* of FewQueries and of the empty place
InitFair ==
    /\ variant \in Drafts \cup {"ANY"}
    /\ credsSet \in BOOLEAN
    /\ procs = {1}
    /\ upstream = AllResponses
    /\ post \in [procs -> {Received(b) : b \in Bodies}]
    /\ input \in [procs -> FewQueries(variant) \cup
                              [name : {"Asha"}, place : {<<>>}, queryType : QueryTypes(variant)]]
    /\ pc = [p \in procs |-> "start"]
    /\ loc = [p \in procs |-> NoLoc]
    /\ log = [p \in procs |-> <<>>]
    /\ resps = [p \in procs |-> <<>>]
    /\ calls = [p \in procs |-> <<>>]
    /\ geocoded = [p \in procs |-> GeoPending]
    /\ raw = [p \in procs |-> Pending]
    /\ result = [p \in procs |-> Pending]
    /\ PageAtRest

\* every outbound network call completes or fails, and a continuation that
\* is ready to run is run
FairSpec == InitFair /\ [][Next]_vars /\ WF_vars(ToolStep)

\* two invocations of the tool in one process (two chat turns, or two tool
\* calls of one turn); their steps interleave at the awaits
InitTwo ==
    /\ variant \in Drafts \cup {"ANY"}
    /\ credsSet \in BOOLEAN
    /\ procs = {1, 2}
    /\ upstream = FewResponses
    /\ post = [p \in procs |-> Received("text")]
    /\ input \in [procs -> FewQueries(variant)]
    /\ pc = [p \in procs |-> "start"]
    /\ loc = [p \in procs |-> NoLoc]
    /\ log = [p \in procs |-> <<>>]
    /\ resps = [p \in procs |-> <<>>]
    /\ calls = [p \in procs |-> <<>>]
    /\ geocoded = [p \in procs |-> GeoPending]
    /\ raw = [p \in procs |-> Pending]
    /\ result = [p \in procs |-> Pending]
    /\ PageAtRest

SpecTwo == InitTwo /\ [][Next]_vars

(***************************************************************************)
(* The chat page as a state machine of its own: the server side is at rest *)
(* (no tool invocation), the user clicks.                                  *)
(***************************************************************************)
MaxNow == 2
MaxMessages == 2
MaxConversations == 3

serverVars ==
    <<variant, credsSet, procs, upstream, post, input, pc, loc, log, resps, calls, geocoded,
      raw, result>>

ServerAtRest ==
    /\ variant = "ANY"
    /\ credsSet = TRUE
    /\ procs = {}
    /\ upstream = {}
    /\ post = <<>>
    /\ input = <<>>
    /\ pc = <<>>
    /\ loc = <<>>
    /\ log = <<>>
    /\ resps = <<>>
    /\ calls = <<>>
    /\ geocoded = <<>>
    /\ raw = <<>>
    /\ result = <<>>

\* Date.now() moves on
Tick ==
    /\ now < MaxNow
    /\ now' = now + 1
    /\ UNCHANGED <<messages, history, conversations, activeId, clicked>>
    /\ UNCHANGED serverVars

\* page.tsx after mount: the history is what an earlier session saved
InitHistory ==
    /\ ServerAtRest
    /\ now = 0
    /\ messages = 0
    /\ history \in {<<>>,
                    <<[id |-> <<"hist", 0>>, messages |-> 1]>>}
    /\ conversations = <<STATIC_DEFAULT_CONVERSATION>>
    /\ activeId = STATIC_DEFAULT_CONVERSATION.id
    /\ clicked = "none"

\* sendMessage: the chat grows by a message
Page_sendMessage ==
    /\ clicked' = "sendMessage"
    /\ messages < MaxMessages
    /\ messages' = messages + 1
    /\ UNCHANGED <<now, history, conversations, activeId>>
    /\ UNCHANGED serverVars

\* clearChat: archive the current chat, then start an empty one
Page_clearChat ==
    /\ clicked' = "clearChat"
    /\ history' = archiveCurrentChatToHistory(history, messages, now)
    /\ messages' = 0
    /\ UNCHANGED <<now, conversations, activeId>>
    /\ UNCHANGED serverVars

\* openHistoryChat(item)
Page_openHistoryChat ==
    /\ clicked' = "openHistoryChat"
    /\ \E i \in 1..Len(history) : messages' = history[i].messages
    /\ UNCHANGED <<now, history, conversations, activeId>>
    /\ UNCHANGED serverVars

\* deleteHistoryItem(item.id)
Page_deleteHistoryItem ==
    /\ clicked' = "deleteHistoryItem"
    /\ \E i \in 1..Len(history) : history' = deleteHistoryItem(history, history[i].id)
    /\ UNCHANGED <<now, messages, conversations, activeId>>
    /\ UNCHANGED serverVars

NextHistory ==
    \/ Tick
    \/ Page_sendMessage
    \/ Page_clearChat
    \/ Page_openHistoryChat
    \/ Page_deleteHistoryItem

SpecHistory == InitHistory /\ [][NextHistory]_vars

\* part_000 after mount: the default conversation, or the list and the
\* active id an earlier session saved
InitConversations ==
    /\ ServerAtRest
    /\ now = 0
    /\ history = <<>>
    /\ clicked = "none"
    /\ \E saved \in {<<STATIC_DEFAULT_CONVERSATION>>,
                     <<Conversation(<<"conv", 0>>, 1), STATIC_DEFAULT_CONVERSATION>>} :
          /\ conversations = saved
          /\ activeId \in {saved[i].id : i \in 1..Len(saved)}
          /\ messages = Find(saved, activeId).messages

\* sendMessage, and the effect that persists the active conversation
Conv_sendMessage ==
    /\ clicked' = "sendMessage"
    /\ messages < MaxMessages
    /\ messages' = messages + 1
    /\ conversations' = PersistActive(conversations, activeId, messages + 1)
    /\ UNCHANGED <<now, history, activeId>>
    /\ UNCHANGED serverVars

\* the New chat button
Conv_handleNewChat ==
    /\ clicked' = "handleNewChat"
    /\ Len(conversations) < MaxConversations
    /\ LET r == handleNewChat(conversations, now)
       IN  /\ conversations' = r.conversations
           /\ activeId' = r.activeId
           /\ messages' = r.messages
    /\ UNCHANGED <<now, history>>
    /\ UNCHANGED serverVars

\* the Open chat button of a conversation: setActiveId(conv.id), and the
\* effect that loads its messages
Conv_openChat ==
    /\ clicked' = "setActiveId"
    /\ \E i \in 1..Len(conversations) :
          /\ activeId' = conversations[i].id
          /\ messages' = Find(conversations, conversations[i].id).messages
    /\ UNCHANGED <<now, history, conversations>>
    /\ UNCHANGED serverVars

\* the delete button of a conversation
Conv_handleDeleteConversation ==
    /\ clicked' = "handleDeleteConversation"
    /\ \E i \in 1..Len(conversations) :
          LET r == handleDeleteConversation(conversations, conversations[i].id, activeId, messages)
          IN  /\ conversations' = r.conversations
              /\ activeId' = r.activeId
              /\ messages' = r.messages
    /\ UNCHANGED <<now, history>>
    /\ UNCHANGED serverVars

NextConversations ==
    \/ Tick
    \/ Conv_sendMessage
    \/ Conv_handleNewChat
    \/ Conv_openChat
    \/ Conv_handleDeleteConversation

SpecConversations == InitConversations /\ [][NextConversations]_vars

(***************************************************************************)
(* Vocabulary of the claims.                                               *)
(***************************************************************************)
Done(p) == pc[p] = "done"
Settled(p) == raw[p].state # "pending"

GeocodeEndpoints == {"geo_details", "search"}
TimezoneEndpoints == {"timezone", "timezone_with_dst"}
ComputeEndpoints == {"astro_details", "birth_details", "daily_nakshatra_prediction"}

\* the i-th response answers the i-th request: requests go out one at a time
Answered(p, i) == i \in 1..Len(resps[p])

\* the positions of the requests of invocation p sent to one of the endpoints
Sent(p, endpoints) == {i \in 1..Len(log[p]) : log[p][i].endpoint \in endpoints}

\* the three AstrologyResult variants, read off a tool result
IsSuccess(r) == r.payload # NoBody

IsLocationNotFound(r) ==
    \/ r.type = "location_not_found"
    \/ r.type = "error" /\ r.message = "couldn't resolve the place"
    \/ r.type = "astrology_error" /\ r.message = "I couldn't resolve the place of birth"
    \/ r.type = "error" /\ r.technical.kind = "no_location"

IsUpstreamFailure(r) ==
    /\ r.type \in {"error", "astrology_error"}
    /\ ~IsLocationNotFound(r)
    /\ r.step # "queryType"

\* an UpstreamFailure that names the compute stage
IsComputeFailure(r) ==
    \/ r.type = "error"
         /\ r.message \in {"issue while fetching your detailed birth chart",
                           "problem while fetching your horoscope data"}
    \/ r.type = "astrology_error"
         /\ r.message = "Astrology engine failed while generating your chart."

\* C1: the safe wrapper always hands the model a concrete object: once it has
\* returned, it has returned (not thrown) a value that is not undefined,
\* whether the wrapped tool returned a value, returned undefined or threw.
C1_WrapperAlwaysReturnsObject ==
    \A p \in procs :
        Done(p) =>
            /\ result[p].state = "returned"
            /\ result[p].value # NoResult
            /\ raw[p].state = "returned" => result[p].value = raw[p].value

\* C1 witness: the unguarded compute call of draft GD threw and the wrapper returned
C1_Witness ==
    \E p \in procs :
        /\ Done(p) /\ variant = "GD" /\ raw[p].state = "threw"
        /\ Sent(p, ComputeEndpoints) # {}
        /\ result[p].value = DegradedUnavailable

\* C2: every run of a draft's execute settles by returning exactly one of
\* Success, LocationNotFound and UpstreamFailure, never by throwing.
C2_ExactlyOneVariantNeverThrows ==
    \A p \in procs :
        (variant \in Drafts /\ Settled(p)) =>
            /\ raw[p].state = "returned"
            /\ \/ IsSuccess(raw[p].value) /\ ~IsLocationNotFound(raw[p].value)
                    /\ ~IsUpstreamFailure(raw[p].value)
               \/ ~IsSuccess(raw[p].value) /\ IsLocationNotFound(raw[p].value)
                    /\ ~IsUpstreamFailure(raw[p].value)
               \/ ~IsSuccess(raw[p].value) /\ ~IsLocationNotFound(raw[p].value)
                    /\ IsUpstreamFailure(raw[p].value)

\* the timezone provider failed: rejected fetch, non-2xx status, a body that
\* is no JSON object, or an offset that is missing or no numeral
TimezoneFailed(resp) ==
    \/ ~Ok(resp)
    \/ resp.body.kind # "object"
    \/ resp.body.timezone.tag \in {"badstr", "emptystr", "undefined"}

\* C3: whenever the timezone provider failed, the offset of the invocation
\* is the default +5.5 and the invocation has not ended in an error.
C3_TimezoneFailureYieldsDefault ==
    \A p \in procs :
        \A i \in Sent(p, TimezoneEndpoints) :
            (Answered(p, i) /\ TimezoneFailed(resps[p][i])) =>
                /\ loc[p].tzone = Num(55000)
                /\ ~(Settled(p) /\ Len(resps[p]) = i)

\* C4: once geocoding has succeeded and the timezone lookup has been
\* answered, whatever the answer, the compute request has been issued.
C4_TimezoneNeverTerminates ==
    \A p \in procs :
        \A i \in Sent(p, TimezoneEndpoints) :
            Answered(p, i) => Sent(p, ComputeEndpoints) # {}

NoCandidates(resp) ==
    /\ Ok(resp)
    /\ resp.body.kind \in {"array", "object"}
    /\ Len(resp.body.rows) = 0

\* the position of the last geocoding request of invocation p
LastGeocode(p) ==
    CHOOSE i \in Sent(p, GeocodeEndpoints) : \A j \in Sent(p, GeocodeEndpoints) : j <= i

C7_ComputeFailureYieldsUpstreamFailure ==
    \A p \in procs :
        \A i \in Sent(p, ComputeEndpoints) :
            (variant \in {"GP", "GD", "ST"} /\ Answered(p, i) /\ ~Ok(resps[p][i])) =>
                /\ raw[p].state = "returned"
                /\ IsComputeFailure(raw[p].value)

\* the positions of the requests sent to the astrology service
AstroIdx(p) == {i \in 1..Len(log[p]) : log[p][i].host = AstrologyHost}

\* the callAstrologyApi calls that reached fetch
IsNetCall(c) == c.err.kind # "config"
NetCalls(p) == SelectSeq(calls[p], IsNetCall)

\* the call that sent request i, once it has been answered
CallOf(p, i) == NetCalls(p)[Cardinality({j \in AstroIdx(p) : j <= i})]

HasComma(s) == \E i \in 1..Len(s) : s[i] = ","

\* C10 as stated: in draft ST an input whose first comma-delimited segment,
\* trimmed and lower-cased, is a table key is resolved without a geocoding request.
C10_FirstSegmentMatchesTable ==
    \A p \in procs :
        (/\ variant = "ST" /\ pc[p] # "start"
         /\ ToLowerCase(Trim(FirstSegment(Trim(input[p].place)))) \in TableKeys) =>
            Sent(p, GeocodeEndpoints) = {}

\* C10 amended: the lookup key is the whole place, trimmed and lower-cased;
\* nothing is cut at a comma.  An input with a comma hits the table only when
\* that whole key is in the table ("mumbai, india", "junagadh, india") and is
\* then returned under its trimmed text; any other input with a comma is sent
\* in full, trimmed, to the geocoding provider as the first request.
C10_WholeKeyMatchesTable ==
    \A p \in procs :
        LET k == ToLowerCase(Trim(input[p].place))
        IN  (variant = "ST" /\ pc[p] # "start" /\ HasComma(input[p].place)) =>
                /\ k \in TableKeys =>
                      /\ Sent(p, GeocodeEndpoints) = {}
                      /\ loc[p].place = Trim(input[p].place)
                      /\ loc[p].lat = fallbackTable[k].lat
                /\ k \notin TableKeys =>
                      /\ log[p] # <<>>
                      /\ log[p][1].host = NominatimHost
                      /\ log[p][1].place = Trim(input[p].place)

\* C10 witness: "Mumbai, Maharashtra, India" was sent to the geocoding provider
C10_Witness ==
    \E p \in procs :
        /\ variant = "ST"
        /\ ToLowerCase(FirstSegment(input[p].place)) = KeyMumbai
        /\ Len(input[p].place) > Len(KeyMumbaiIndia)
        /\ log[p] # <<>>
        /\ log[p][1].host = NominatimHost
        /\ log[p][1].place = input[p].place

StableUpstream ==
    \A p \in procs, q \in procs :
        \A i \in 1..Len(resps[p]), j \in 1..Len(resps[q]) :
            log[p][i] = log[q][j] => resps[p][i] = resps[q][j]

\* the variant of what the wrapper handed to the model
Variant(settled) ==
    CASE settled.state # "returned" -> settled.state
      [] settled.value.ok = "false" -> "degraded"
      [] IsSuccess(settled.value) -> "success"
      [] IsLocationNotFound(settled.value) -> "location_not_found"
      [] IsUpstreamFailure(settled.value) -> "upstream_failure"
      [] OTHER -> "other"

\* C12: two invocations of the wrapped tool (any of the four drafts) with
\* the same query, against an upstream that answers the same request the
\* same way, issue the same requests and return results of the same variant.
C12_SameQuerySameVariant ==
    \A p \in procs, q \in procs :
        (/\ variant \in Drafts /\ StableUpstream
         /\ input[p] = input[q] /\ Done(p) /\ Done(q)) =>
            /\ log[p] = log[q]
            /\ Variant(result[p]) = Variant(result[q])
            /\ Variant(result[p]) \in
                  {"success", "location_not_found", "upstream_failure", "degraded"}

\* C12 witness: draft GD ran the same query twice to two successes, each
\* through three requests that were answered alike
C12_Witness ==
    /\ variant = "GD" /\ procs = {1, 2} /\ StableUpstream
    /\ input[1] = input[2] /\ Done(1) /\ Done(2)
    /\ Len(resps[1]) = 3 /\ resps[1] = resps[2]
    /\ Variant(result[1]) = "success" /\ Variant(result[2]) = "success"

\* one invocation run alone: execute of draft d up to its first await, and
\* its step at the await named at
StartOf(d, q) ==
    CASE d = "GP" -> GP_Start(q)
      [] d = "GD" -> GD_Start(q)
      [] d = "ST" -> ST_Start(q)
      [] OTHER -> GU_Start(q)

StepOf(d, at, q, l, resp) ==
    CASE d = "GP" /\ at = "geo_details" -> GP_AfterGeoDetails(q, resp)
      [] d = "GP" /\ at = "nominatim" -> GP_AfterNominatim(q, resp)
      [] d = "GP" -> GP_AfterCompute(q, l, resp)
      [] d = "GD" /\ at = "geo_details" -> GD_AfterGeoDetails(q, resp)
      [] d = "GD" /\ at = "timezone" -> GD_AfterTimezone(q, l, resp)
      [] d = "GD" -> GD_AfterCompute(q, l, resp)
      [] d = "ST" /\ at = "nominatim" -> ST_AfterNominatim(q, resp)
      [] d = "ST" -> ST_AfterCompute(q, l, resp)
      [] d = "GU" /\ at = "geo_details" -> GU_AfterGeoDetails(q, resp)
      [] d = "GU" /\ at = "timezone" -> GU_AfterTimezone(q, l, resp)
      [] OTHER -> GU_AfterCompute(q, l, resp)

\* where an invocation that runs alone stands after the responses rs
RECURSIVE RunAlone(_, _, _, _)
RunAlone(d, q, c, rs) ==
    IF rs = <<>> \/ c.pc = "settled"
    THEN c
    ELSE RunAlone(d, q, StepOf(d, c.pc, q, c.loc, Head(rs)), Tail(rs))

\* C13: the pipeline is re-entrant.  With two invocations whose steps
\* interleave in any order, each invocation stands, after the responses it
\* has received, exactly where it would stand had it run alone: the same
\* await, the same resolved location, the same outcome of execute and the
\* same result handed to the model.
C13_ReentrantAsIfAlone ==
    \A p \in procs :
        (variant \in Drafts /\ pc[p] # "start") =>
            LET alone == RunAlone(variant, input[p], StartOf(variant, input[p]), resps[p])
            IN  /\ loc[p] = alone.loc
                /\ raw[p] = alone.raw
                /\ ~Done(p) => pc[p] = alone.pc /\ result[p] = Pending
                /\ Done(p) => alone.pc = "settled" /\ result[p] = safeExecute(alone.raw)

\* C13 witness: in draft GD invocation 1 has returned a chart for Mumbai
\* while invocation 2, started with another query and answered another
\* offset, is suspended at its compute call
C13_Witness ==
    /\ variant = "GD" /\ procs = {1, 2}
    /\ input[1] # input[2]
    /\ Done(1) /\ Variant(result[1]) = "success"
    /\ pc[2] = "compute" /\ Len(resps[2]) = 2
    /\ loc[1].tzone # loc[2].tzone

\* invocation p is suspended at an await of a network call
InFlight(p) == pc[p] \in {"geo_details", "nominatim", "timezone", "compute"}

\* C14: one invocation sends at most three requests in all: at most two to
\* geocoding providers, at most one to the timezone endpoint and at most one
\* to a compute endpoint; and it sends them one after another: a request
\* goes out only when every earlier one has been answered, so at most one is
\* in flight, and exactly one while the invocation is suspended.
C14_AtMostThreeSequentialCalls ==
    \A p \in procs :
        /\ Len(log[p]) <= 3
        /\ Cardinality(Sent(p, GeocodeEndpoints)) <= 2
        /\ Cardinality(Sent(p, TimezoneEndpoints)) <= 1
        /\ Cardinality(Sent(p, ComputeEndpoints)) <= 1
        /\ Len(resps[p]) <= Len(log[p])
        /\ Len(log[p]) <= Len(resps[p]) + 1
        /\ InFlight(p) <=> Len(log[p]) = Len(resps[p]) + 1

\* C14 witness: draft GP used all three calls: geo_details failed,
\* OpenStreetMap resolved the place and the compute call returned a payload
C14_Witness ==
    \E p \in procs :
        /\ variant = "GP" /\ Done(p)
        /\ Len(log[p]) = 3 /\ Len(resps[p]) = 3
        /\ log[p][1].endpoint = "geo_details" /\ ~Ok(resps[p][1])
        /\ log[p][2].endpoint = "search"
        /\ log[p][3].endpoint \in ComputeEndpoints
        /\ IsSuccess(result[p].value)

\* C15: no stage is tried twice.  Within one invocation no two requests go
\* to the same endpoint of the same host, and callAstrologyApi is called at
\* most once per endpoint, whether the call returned, threw on the answer
\* or threw before sending; after a failed answer the invocation either
\* ends or moves on to another endpoint.
C15_NoRetries ==
    \A p \in procs :
        /\ \A i \in 1..Len(log[p]), j \in 1..Len(log[p]) :
              (log[p][i].host = log[p][j].host /\ log[p][i].endpoint = log[p][j].endpoint)
                  => i = j
        /\ \A i \in 1..Len(calls[p]), j \in 1..Len(calls[p]) :
              calls[p][i].endpoint = calls[p][j].endpoint => i = j
        /\ \A i \in 1..Len(resps[p]) :
              ~Ok(resps[p][i]) =>
                  \A j \in 1..Len(log[p]) :
                      j > i => log[p][j].endpoint # log[p][i].endpoint

\* C15 witness: in draft GP geo_details and the compute call both failed;
\* each was asked once, and the invocation ended after three requests
C15_Witness ==
    \E p \in procs :
        /\ variant = "GP" /\ Done(p)
        /\ Len(resps[p]) = 3
        /\ ~Ok(resps[p][1]) /\ ~Ok(resps[p][3])
        /\ Cardinality({log[p][i].endpoint : i \in 1..3}) = 3
        /\ IsComputeFailure(result[p].value)

\* the tool of invocation p has been called
Invoked(p) == pc[p] # "start"

\* C16: the moderation gate comes before the model and the tools.  The model
\* runs, and the tool is called, only in a chat request whose latest user
\* message either had its text passed by moderation or has no text to
\* moderate; a request with text is never served before moderation has
\* settled; and a flagged request is answered with the denial message (the
\* one moderation gave, or the default one), and in it neither the model
\* runs nor is the tool ever called.
C16_ModerationPrecedesPipeline ==
    \A p \in procs :
        /\ Invoked(p) => post[p].stage = "streaming"
        /\ post[p].stage \in {"streaming", "fallback"} =>
              /\ post[p].verdict \in {"clean", "skipped"}
              /\ post[p].body = "text" <=> post[p].verdict = "clean"
        /\ post[p].verdict = "flagged" =>
              /\ post[p].stage = "denied"
              /\ post[p].reply \in
                    {"custom", "Your message violates our guidelines. I can't answer that."}
              /\ ~Invoked(p) /\ log[p] = <<>> /\ raw[p] = Pending /\ result[p] = Pending
        /\ post[p].stage = "denied" => post[p].verdict = "flagged"

\* C16 witness: a message with text was flagged without a denial message;
\* the request was answered with the default denial and the tool not called
C16_Witness ==
    \E p \in procs :
        /\ post[p] = Chat("denied", "text", "flagged",
                           "Your message violates our guidelines. I can't answer that.")
        /\ ~Invoked(p) /\ log[p] = <<>>

\* the wrapper of invocation p has handed the model a terminal result
Returned(p) ==
    /\ Done(p)
    /\ Variant(result[p]) \in {"success", "location_not_found", "upstream_failure", "degraded"}

\* C17: the tool call always returns.  Provided every network call
\* completes or fails, a tool call that has been made always leads to a
\* terminal result (success, location not found, upstream failure or
\* degraded) handed to the model by the wrapper.
C17_ToolCallAlwaysReturns ==
    (\E p \in procs : Invoked(p) /\ ~Returned(p)) ~> (\A p \in procs : Returned(p))

\* C17 witness: draft GU was answered three times, the last time with a
\* failure, and the wrapper handed the model the upstream failure
C17_Witness ==
    \E p \in procs :
        /\ variant = "GU" /\ Returned(p)
        /\ Len(resps[p]) = 3 /\ ~Ok(resps[p][3])
        /\ Variant(result[p]) = "upstream_failure"

\* the stage a request belongs to, and the stage an invocation stands in
StageOf(endpoint) ==
    CASE endpoint \in GeocodeEndpoints -> 1
      [] endpoint \in TimezoneEndpoints -> 2
      [] OTHER -> 3

StageAt(at) ==
    CASE at = "start" -> 0
      [] at \in {"geo_details", "nominatim"} -> 1
      [] at = "timezone" -> 2
      [] at = "compute" -> 3
      [] OTHER -> 4

\* the stages are passed in order in every state ...
C18_StagesInOrder ==
    \A p \in procs :
        /\ \A i \in 1..Len(log[p]), j \in 1..Len(log[p]) :
              i < j => StageOf(log[p][i].endpoint) <= StageOf(log[p][j].endpoint)
        /\ InFlight(p) => StageAt(pc[p]) = StageOf(log[p][Len(log[p])].endpoint)
        /\ Sent(p, TimezoneEndpoints \cup ComputeEndpoints) # {} =>
              /\ geocoded[p].state = "returned"
              /\ loc[p].lat = geocoded[p].loc.lat /\ loc[p].lon = geocoded[p].loc.lon
              /\ \A i \in Sent(p, GeocodeEndpoints) : Answered(p, i)
        /\ geocoded[p].state \in {"threw", "failed"} =>
              /\ Sent(p, TimezoneEndpoints \cup ComputeEndpoints) = {}
              /\ Settled(p)
              /\ raw[p].state = "returned" /\ ~IsSuccess(raw[p].value)
        /\ (variant \in Drafts /\ IsSuccess(raw[p].value)) =>
              \E i \in Sent(p, ComputeEndpoints) : Answered(p, i) /\ Ok(resps[p][i])

\* ... and no step leads back: the stage of an invocation never decreases,
\* and an outcome of the geocoding stage, once there, stays
C18_NoStepBack ==
    \A p \in procs :
        /\ StageAt(pc'[p]) >= StageAt(pc[p])
        /\ geocoded[p] # GeoPending => geocoded'[p] = geocoded[p]

\* C18: execute of each draft is a linear state machine, start, geocoding, timezone
\* resolution, computing, done, with early exits and no way back: requests
\* go out in stage order; a timezone or compute request is sent only after
\* the geocoding stage has returned a location; once that stage has failed
\* the invocation ends without a timezone or compute request and without a
\* Success; and a Success comes only from an answered compute request.
C18_LinearStateMachine == []C18_StagesInOrder /\ [][C18_NoStepBack]_vars

\* C18 witness: draft GU went through all the stages in order to a chart
C18_Witness ==
    \E p \in procs :
        /\ variant = "GU" /\ Done(p) /\ IsSuccess(result[p].value)
        /\ Len(log[p]) = 3
        /\ StageOf(log[p][1].endpoint) = 1
        /\ StageOf(log[p][2].endpoint) = 2
        /\ StageOf(log[p][3].endpoint) = 3
        /\ geocoded[p].state = "returned"

\* the query asks for chart details (the first value of each draft's
\* queryType enum); the other value asks for the lighter reading
IsChartDetails(q) == q.queryType \in {"birth_chart", "birth_details"}

\* C19: the compute endpoint follows from the kind of query.  A chart
\* details query is sent to the chart endpoint astro_details, a query for the
\* lighter reading to another endpoint, never to that of the chart; and a
\* query that ended in Success has sent exactly one compute request.
C19_EndpointByQueryKind ==
    \A p \in procs :
        variant \in Drafts =>
            /\ \A i \in Sent(p, ComputeEndpoints) :
                  IsChartDetails(input[p]) <=> log[p][i].endpoint = "astro_details"
            /\ IsSuccess(raw[p].value) => Cardinality(Sent(p, ComputeEndpoints)) = 1

\* C20: a Success wraps the payload of the compute response unchanged,
\* together with the name the query gave and the resolved location: the
\* latitude, longitude and offset it reports are the values sent in the body
\* of the compute request.
C20_SuccessReportsWhatWasSent ==
    \A p \in procs :
        (variant \in Drafts /\ raw[p].state = "returned" /\ IsSuccess(raw[p].value)) =>
            \A i \in Sent(p, ComputeEndpoints) :
                /\ Answered(p, i)
                /\ raw[p].value.payload = resps[p][i].body
                /\ raw[p].value.name = input[p].name
                /\ raw[p].value.lat = log[p][i].lat
                /\ raw[p].value.lon = log[p][i].lon
                /\ raw[p].value.tzone = log[p][i].tzone

\* the position of the Nominatim request of invocation p
SearchIdx(p) == CHOOSE i \in Sent(p, {"search"}) : TRUE

\* C21: in the drafts GP and ST, when geocodePlace returns a location built
\* from the first Nominatim row, the timezone comes from that row's country
\* code alone and without a timezone request: country code "in" in any case
\* gives Asia/Kolkata with offset 5.5, every other or missing country code
\* gives UTC with offset 0.
C21_TimezoneFromCountryCode ==
    \A p \in procs :
        (/\ variant \in {"GP", "ST"}
         /\ Sent(p, {"search"}) # {}
         /\ Answered(p, SearchIdx(p))
         /\ geocoded[p].state = "returned") =>
            LET first == resps[p][SearchIdx(p)].body.rows[1]
                inIndia == ToLowerCase(first.country_code) = <<"i", "n">>
            IN  /\ Sent(p, TimezoneEndpoints) = {}
                /\ geocoded[p].loc.timezoneId = (IF inIndia THEN "Asia/Kolkata" ELSE "UTC")
                /\ geocoded[p].loc.tzone = (IF inIndia THEN Num(55000) ELSE Num(0))

\* a geo_details answer whose first row is a usable candidate: latitude,
\* longitude and offset all read as numbers (an absent offset reads as 5.5)
UsableCandidate(resp) ==
    /\ Ok(resp)
    /\ resp.body.kind = "array"
    /\ Len(resp.body.rows) > 0
    /\ LET first == resp.body.rows[1]
       IN  /\ ~IsNaN(ToNum(Nullish(first.latitude, first.lat)))
           /\ ~IsNaN(ToNum(Nullish(first.longitude, first.lon)))
           /\ ~IsNaN(ToNum(Nullish(Nullish(first.tzone, first.timezone), Num(55000))))

InRange(x, lo, hi) == x.tag = "number" /\ lo <= x.v /\ x.v <= hi

\* C23: every location that reaches a compute request or a Success result
\* has its latitude in [-90, 90], its longitude in [-180, 180] and its UTC
\* offset in [-12, 14], whatever the geocoding providers answered.
C23_ResolvedLocationInRange ==
    \A p \in procs :
        variant \in Drafts =>
            /\ \A i \in Sent(p, ComputeEndpoints) :
                  /\ InRange(log[p][i].lat, -900000, 900000)
                  /\ InRange(log[p][i].lon, -1800000, 1800000)
                  /\ InRange(log[p][i].tzone, -120000, 140000)
            /\ (raw[p].state = "returned" /\ IsSuccess(raw[p].value)) =>
                  /\ InRange(raw[p].value.tzone, -120000, 140000)
                  /\ variant # "GU" =>
                        /\ InRange(raw[p].value.lat, -900000, 900000)
                        /\ InRange(raw[p].value.lon, -1800000, 1800000)

\* the messages that tell the model to answer from general knowledge
GeneralKnowledgeMessages ==
    {"Astrology service returned no data. Please answer using general Vedic astrology knowledge only.",
     "The external astrology service is temporarily unavailable. Please answer using general Vedic astrology principles only, without external API data."}

\* C24: the safe wrapper converts only failures.  When the wrapped tool threw
\* or returned undefined, the wrapper returns an object with ok = false, a
\* message telling the model to answer from general knowledge and nothing
\* else; when the wrapped tool returned a value, whatever its kind, the
\* wrapper returns that very value.
C24_AdapterConvertsOnlyFailures ==
    \A p \in procs :
        Done(p) =>
            /\ raw[p].state \in {"threw", "undefined"} =>
                  /\ result[p].state = "returned"
                  /\ result[p].value.ok = "false"
                  /\ result[p].value.message \in GeneralKnowledgeMessages
                  /\ result[p].value =
                        [NoResult EXCEPT !.ok = "false", !.message = result[p].value.message]
            /\ raw[p].state = "returned" => result[p] = raw[p]

\* C24 witness: the tool of draft GD returned its location_not_found result,
\* a failure it reported by value, and the wrapper passed it on as it was
C24_Witness ==
    \E p \in procs :
        /\ Done(p) /\ variant = "GD"
        /\ raw[p].state = "returned"
        /\ raw[p].value.type = "location_not_found"
        /\ result[p].value = raw[p].value

\* a result that reports a failure: an error or location_not_found object of
\* a tool, or the degraded object of the safe wrapper
IsNonSuccess(r) ==
    \/ r.type \in {"error", "astrology_error", "location_not_found"}
    \/ r.ok = "false"

\* C25: every non-success result the model receives (location not found,
\* upstream failure, unsupported query type, degraded) has a non-empty
\* message and no chart payload; every other result the model receives
\* carries the payload.
C25_NonSuccessHasMessageNoPayload ==
    \A p \in procs :
        (Done(p) /\ (variant \in Drafts \/ raw[p].state # "returned")) =>
            LET r == result[p].value
            IN  /\ result[p].state = "returned"
                /\ IsNonSuccess(r) => (r.message # "" /\ r.payload = NoBody)
                /\ ~IsNonSuccess(r) => r.payload # NoBody

\* C25 witness: the geo_details call of draft GD was answered 500 and the
\* model received the error result with its message and no payload
C25_Witness ==
    \E p \in procs :
        /\ Done(p) /\ variant = "GD"
        /\ resps[p] = <<Http(500, TextBody)>>
        /\ result[p].value.type = "error" /\ result[p].value.step = "geo_details"
        /\ result[p].value.message # "" /\ result[p].value.payload = NoBody

\* the geo service answered with a 2xx status and no geonames row
AnsweredWithoutGeonames(resp) ==
    /\ Ok(resp)
    /\ \/ ~resp.body.hasGeonames
       \/ Len(resp.body.rows) = 0

\* C26: in draft GD, once the geo stage is over: the result is
\* location_not_found exactly when the geo service answered 2xx with an empty
\* or missing geonames list; when the service could not be reached (fetch
\* rejected, non-2xx status, credentials unset) the result is an error with
\* step = geo_details and a different message; in both cases no timezone and
\* no compute request is sent.
C26_NotFoundOnlyWhenGeoAnswered ==
    \A p \in procs :
        (variant = "GD" /\ pc[p] \notin {"start", "geo_details"}) =>
            LET asked == Sent(p, {"geo_details"}) # {}
                notFound == raw[p].state = "returned" /\ raw[p].value.type = "location_not_found"
                geoError == /\ raw[p].state = "returned"
                            /\ raw[p].value.type = "error"
                            /\ raw[p].value.step = "geo_details"
            IN  /\ notFound <=> (asked /\ AnsweredWithoutGeonames(resps[p][1]))
                /\ geoError <=> (~asked \/ ~Ok(resps[p][1]))
                /\ ~asked <=> ~credsSet
                /\ geoError => raw[p].value.message # GD_NotFound(input[p]).message
                /\ (notFound \/ geoError) =>
                      /\ Len(log[p]) <= 1
                      /\ Sent(p, TimezoneEndpoints \cup ComputeEndpoints) = {}

\* C26 witness: draft GD without credentials: no request went out and the
\* tool returned the geo_details error, not location_not_found
C26_Witness ==
    \E p \in procs :
        /\ variant = "GD" /\ Done(p) /\ ~credsSet
        /\ log[p] = <<>>
        /\ raw[p].value.type = "error" /\ raw[p].value.step = "geo_details"

\* C27: the POST handler has a global fallback: it always answers with a
\* stream, and whenever something went wrong while it handled the request
\* (the body could not be read, the moderation check threw, the main chat
\* logic threw) the stream it answers with is the fallback message.
C27_GlobalFallback ==
    \A p \in procs :
        post[p].stage \notin {"received", "moderating"} =>
            /\ post[p].reply # "none"
            /\ (post[p].body = "malformed" \/ post[p].verdict = "threw") =>
                  post[p].reply = "fallback-error-text"

\* C28: the execute of draft GU, whose whole body is inside one try, never
\* throws and never returns undefined.  When a call to the astrology service
\* threw (credentials unset, fetch rejected, non-2xx status), when lookupGeo
\* threw, or when execute returned before its compute request, the result is
\* an object of type error with a non-empty message and no payload; every
\* other result follows an answered compute request and has the type of the
\* requested queryType and the payload.
C28_GuardedExecuteNeverThrows ==
    \A p \in procs :
        variant = "GU" =>
            /\ raw[p].state \in {"pending", "returned"}
            /\ pc[p] \in {"settled", "done"} => raw[p].state = "returned"
            /\ raw[p].state = "returned" =>
                  LET r == raw[p].value
                      failed == \/ \E i \in 1..Len(calls[p]) : calls[p][i].threw
                                \/ geocoded[p].state = "threw"
                                \/ Sent(p, ComputeEndpoints) = {}
                  IN  /\ failed => (r.type = "error" /\ r.message # "" /\ r.payload = NoBody)
                      /\ r.type # "error" =>
                            /\ r.type = input[p].queryType
                            /\ r.payload # NoBody
                            /\ \A i \in Sent(p, ComputeEndpoints) :
                                  Answered(p, i) /\ Ok(resps[p][i])
            /\ (~credsSet /\ pc[p] # "start") =>
                  /\ raw[p].state = "returned" /\ raw[p].value.type = "error"
                  /\ log[p] = <<>>

\* C28 witness: draft GU, the timezone service answered with an offset that
\* is no number: lookupTimezoneOffset threw and execute returned the error
C28_Witness ==
    \E p \in procs :
        /\ variant = "GU" /\ Done(p) /\ Len(resps[p]) = 2
        /\ resps[p][2] = Http(200, TimezoneBody(BadStr))
        /\ raw[p].state = "returned" /\ raw[p].value.type = "error"
        /\ raw[p].value.message = "Couldn't resolve timezone offset"

\* C29, in every state: the history holds at most five previous chats
C29_AtMostFive == Len(history) <= 5

\* C29, in every step: clearChat on a non-empty chat puts that chat first,
\* shifts the others down by one and drops what falls beyond five; clearChat
\* on an empty chat leaves the history as it is; opening a previous chat
\* leaves the history as it is; a delete only removes items
C29_Archiving ==
    /\ (clicked' = "clearChat" /\ now' = now /\ messages # 0) =>
          /\ Len(history') = (IF Len(history) < 5 THEN Len(history) + 1 ELSE 5)
          /\ history'[1].messages = messages
          /\ \A i \in 2..Len(history') : history'[i] = history[i - 1]
          /\ messages' = 0
    /\ (clicked' = "clearChat" /\ now' = now /\ messages = 0) => history' = history
    /\ (clicked' = "openHistoryChat" /\ now' = now) => history' = history
    /\ (clicked' = "deleteHistoryItem" /\ now' = now) =>
          /\ Len(history') < Len(history)
          /\ \A i \in 1..Len(history') : \E j \in i..Len(history) : history'[i] = history[j]

\* C29: the previous-chats history holds at most 5 items after any sequence
\* of new-chat (clearChat), open-history and delete-history operations;
\* archiving puts the just-finished chat first and drops the oldest items
\* beyond five, and clearing an empty chat archives nothing.
C29_HistoryAtMostFive == []C29_AtMostFive /\ [][C29_Archiving]_vars

\* C29 witness: clearChat has just archived a chat into a history that was
\* full: five previous chats, the chat the session started with dropped
C29_Witness ==
    /\ clicked = "clearChat"
    /\ Len(history) = 5
    /\ messages = 0
    /\ \A i \in 1..5 : history[i].id # <<"hist", 0>>

\* the ids of the conversations in the list
ConversationIds == {conversations[i].id : i \in 1..Len(conversations)}

\* C30, in every state: the conversation list is not empty and the active id
\* is the id of a conversation in the list
C30_ActiveInList == conversations # <<>> /\ activeId \in ConversationIds

\* C30, in every step: deleting the one conversation left puts a fresh empty
\* conversation in its place and makes it the active one; deleting the active
\* conversation among several makes the first of the remaining ones active;
\* deleting another one leaves the active id alone
C30_DeleteKeepsOneActive ==
    (clicked' = "handleDeleteConversation" /\ now' = now) =>
        /\ Len(conversations) = 1 =>
              /\ conversations' = <<STATIC_DEFAULT_CONVERSATION>>
              /\ conversations'[1].messages = 0
              /\ activeId' = conversations'[1].id
              /\ messages' = 0
        /\ Len(conversations') <= Len(conversations)
        /\ activeId' # activeId => activeId' = conversations'[1].id

\* C30: in the multi-conversation chat page, after any sequence of new-chat,
\* open-chat and delete-chat operations the conversation list is never empty
\* and the active conversation id always identifies a conversation in the
\* list; deleting the last remaining conversation replaces it with a fresh
\* empty conversation that becomes active.
C30_ConversationListNeverEmpty == []C30_ActiveInList /\ [][C30_DeleteKeepsOneActive]_vars

\* C30 witness: the user wrote into the only conversation and deleted it: the
\* list holds the fresh empty conversation, and it is the active one
C30_Witness ==
    /\ clicked = "handleDeleteConversation"
    /\ conversations = <<STATIC_DEFAULT_CONVERSATION>>
    /\ activeId = STATIC_DEFAULT_CONVERSATION.id
    /\ messages = 0

====
